---- MODULE Spec2Model ----
(***************************************************************************)
(* OAuth token lifecycle of backend-server.js: the generic callback        *)
(* handler GET /api/auth/callback/:platform, the configuration helper      *)
(* getPlatformConfig and the token helper getUserOAuthToken, over the      *)
(* three store tables they use (platform_oauth_configs, platform_settings, *)
(* oauth_tokens).                                                          *)
(*                                                                         *)
(* Every await of the code is one step: a handler runs from one await to   *)
(* the next without interleaving (Node's single-threaded event loop), and  *)
(* the store or provider answers in the step that resumes the handler.     *)
(***************************************************************************)
EXTENDS Integers, Sequences, FiniteSets, TLC

\* ------------------------------------------------------------------ values
\* JavaScript null / undefined for string-valued, row-valued and
\* time-valued places (kept apart so that values of one place compare).
Undefined == "undefined"
NullStr == "null"
NoRow == [none |-> TRUE]
NullTime == -1

\* A key the parsed object does not have (undefined).
Absent == <<-1>>

NotDecoded == [threw |-> FALSE, userId |-> Absent, statePlatform |-> Absent]

\* No codec run in progress.
NoCodec ==
    [pc |-> "none", userId |-> "", platformId |-> NullStr, state |-> <<>>,
     decoded |-> NotDecoded]

\* The platforms the callback's switch knows (backend-server.js:1786-1802)
SupportedPlatforms ==
    {"spotify", "youtube", "google_analytics", "facebook", "instagram", "twitter", "tiktok"}

\* A :platform path segment outside the switch.
UnknownPlatforms == {"soundcloud"}

Platforms == SupportedPlatforms \cup UnknownPlatforms

Users == {"u1", "u2"}

\* ------------------------------------------------------------------ bounds
\* Most rows with enabled = true that one config table holds for a platform.
MaxCfgRows == 2
\* Requests in flight together in the concurrent specification.
MaxReqs == 3
\* The clock advances this many times at most.
MaxTicks == 1
\* Most rows one (user_id, platform_id) key holds at the start.
MaxDup == 3
\* Token fetches that follow one another in the token specification.
MaxFetches == 2
\* Largest remaining_credits and used_credits a user starts with.
MaxCredits == 2
MaxUsed == 1
\* Most AI requests in flight together.
MaxAiReqs == 2

\* ------------------------------------------------------------------ state
VARIABLES
    platform_oauth_configs,  \* the primary config table (set of rows)
    platform_settings,       \* the legacy config table (set of rows)
    oauth_tokens,            \* the token table (set of rows)
    nextId,                  \* next row id the token table hands out
    now,                     \* Date.now(), in milliseconds
    req,                     \* req[r]: the request handled in slot r
    cfgCall,                 \* the last getPlatformConfig call and its result
    uniqueKey,               \* oauth_tokens has the unique index on (user_id,
                             \* platform_id) that the upsert's onConflict names
    codec,                   \* a state parameter on its way from encode to decode
    user_ai_usage,           \* the user_ai_usage row of the user (NoRow: none)
    aiReq,                   \* aiReq[r]: the AI request handled in slot r
    usageAtStart             \* user_ai_usage before any AI request

vars ==
    <<platform_oauth_configs, platform_settings, oauth_tokens, nextId, now, req, cfgCall,
      uniqueKey, codec, user_ai_usage, aiReq, usageAtStart>>

\* ------------------------------------------------------------------ config tables
\* JavaScript truthiness of a string-valued place (used by a || b)
Falsy(v) == v \in {NullStr, Undefined, ""}

\* a || b
Or(a, b) == IF Falsy(a) THEN b ELSE a

\* A row of platform_oauth_configs (the columns getPlatformConfig reads).
PrimaryRow(p, i, en) ==
    [id |-> i, platform_id |-> p, enabled |-> en,
     client_id |-> "new_client_id", client_secret |-> "new_client_secret",
     redirect_uri |-> "new_redirect_uri", scopes |-> "new_scopes",
     api_endpoint |-> "new_api_endpoint"]

\* setting_value of a platform_settings row.  A null blob reads as undefined
\* through ?. exactly as a blob without the key does, so it is the blob with
\* every key undefined.
NoBlob ==
    [clientId |-> Undefined, clientSecret |-> Undefined, redirectUri |-> Undefined,
     scopes |-> Undefined, apiEndpoint |-> Undefined]

FullBlob ==
    [clientId |-> "blob_client_id", clientSecret |-> "blob_client_secret",
     redirectUri |-> "blob_redirect_uri", scopes |-> "blob_scopes",
     apiEndpoint |-> "blob_api_endpoint"]

\* A settings blob that lacks the apiEndpoint key.
PartBlob == [FullBlob EXCEPT !.apiEndpoint = Undefined]

LegacyForms == {"columns", "blob", "both", "mixed"}

\* A row of platform_settings: its values sit in the dedicated columns
\* ("columns"), in the settings blob ("blob"), in both ("both"), or some
\* columns are set and others are null or empty beside a blob that lacks a
\* key ("mixed").
LegacyRow(p, i, en, form) ==
    CASE form = "columns" ->
           [id |-> i, platform_id |-> p, enabled |-> en,
            client_id |-> "old_client_id", client_secret |-> "old_client_secret",
            redirect_uri |-> "old_redirect_uri", scopes |-> "old_scopes",
            api_endpoint |-> "old_api_endpoint", setting_value |-> NoBlob]
      [] form = "blob" ->
           [id |-> i, platform_id |-> p, enabled |-> en,
            client_id |-> NullStr, client_secret |-> NullStr,
            redirect_uri |-> NullStr, scopes |-> NullStr,
            api_endpoint |-> NullStr, setting_value |-> FullBlob]
      [] form = "both" ->
           [id |-> i, platform_id |-> p, enabled |-> en,
            client_id |-> "old_client_id", client_secret |-> "old_client_secret",
            redirect_uri |-> "old_redirect_uri", scopes |-> "old_scopes",
            api_endpoint |-> "old_api_endpoint", setting_value |-> FullBlob]
      [] OTHER ->
           [id |-> i, platform_id |-> p, enabled |-> en,
            client_id |-> "old_client_id", client_secret |-> NullStr,
            redirect_uri |-> "", scopes |-> "old_scopes",
            api_endpoint |-> NullStr, setting_value |-> PartBlob]

\* What a table holds for one platform: en rows with enabled = true and
\* dis rows with enabled = false.
CfgShapes == [en : 0..MaxCfgRows, dis : 0..1]

PrimaryRowsOf(p, shape) ==
    {PrimaryRow(p, i, TRUE) : i \in 1..shape.en}
        \cup {PrimaryRow(p, shape.en + i, FALSE) : i \in 1..shape.dis}

LegacyRowsOf(p, shape, form) ==
    {LegacyRow(p, i, TRUE, form) : i \in 1..shape.en}
        \cup {LegacyRow(p, shape.en + i, FALSE, form) : i \in 1..shape.dis}

\* supabase.from(table).select('*').eq('platform_id', platform)
\*     .eq('enabled', true).single()
\* fails: the request did not reach the store (supabase-js reports it in
\* error, it does not throw).  single() reports an error unless exactly one
\* row matches.
SelectEnabledSingle(table, platform, fails) ==
    LET rows == {row \in table : row.platform_id = platform /\ row.enabled}
    IN  IF fails THEN [data |-> NoRow, error |-> "fetch_failed"]
        ELSE IF Cardinality(rows) = 1
             THEN [data |-> CHOOSE row \in rows : TRUE, error |-> NullStr]
             ELSE [data |-> NoRow, error |-> "PGRST116"]

\* The object getPlatformConfig builds from a primary row.
ConfigFromPrimary(newData) ==
    [clientId |-> newData.client_id, clientSecret |-> newData.client_secret,
     redirectUri |-> newData.redirect_uri, scopes |-> newData.scopes,
     apiEndpoint |-> newData.api_endpoint]

\* The settings blob read before the dedicated column.
ConfigFromLegacyBlobFirst(oldData) ==
    [clientId |-> Or(oldData.setting_value.clientId, oldData.client_id),
     clientSecret |-> Or(oldData.setting_value.clientSecret, oldData.client_secret),
     redirectUri |-> Or(oldData.setting_value.redirectUri, oldData.redirect_uri),
     scopes |-> Or(oldData.setting_value.scopes, oldData.scopes),
     apiEndpoint |-> Or(oldData.setting_value.apiEndpoint, oldData.api_endpoint)]

\* The object getPlatformConfig builds from a legacy row.
ConfigFromLegacy(oldData) ==
    [clientId |-> Or(oldData.client_id, oldData.setting_value.clientId),
     clientSecret |-> Or(oldData.client_secret, oldData.setting_value.clientSecret),
     redirectUri |-> Or(oldData.redirect_uri, oldData.setting_value.redirectUri),
     scopes |-> Or(oldData.scopes, oldData.setting_value.scopes),
     apiEndpoint |-> Or(oldData.api_endpoint, oldData.setting_value.apiEndpoint)]

\* The legacy table asked first.
getPlatformConfigLegacyFirst(platform, primaryFails, legacyFails) ==
    LET new == SelectEnabledSingle(platform_oauth_configs, platform, primaryFails)
        old == SelectEnabledSingle(platform_settings, platform, legacyFails)
    IN  IF old.error = NullStr /\ old.data # NoRow
        THEN ConfigFromLegacy(old.data)
        ELSE IF new.error = NullStr /\ new.data # NoRow
             THEN ConfigFromPrimary(new.data)
             ELSE NoRow

\* getPlatformConfig(platform); NoRow is its null.  primaryFails, legacyFails:
\* the query of that table did not reach the store.
getPlatformConfig(platform, primaryFails, legacyFails) ==
    LET new == SelectEnabledSingle(platform_oauth_configs, platform, primaryFails)
        old == SelectEnabledSingle(platform_settings, platform, legacyFails)
    IN  IF new.error = NullStr /\ new.data # NoRow
        THEN ConfigFromPrimary(new.data)
        ELSE IF old.error = NullStr /\ old.data # NoRow
             THEN ConfigFromLegacy(old.data)
             ELSE NoRow


\* ------------------------------------------------------------------ callback inputs
\* The code query parameter: absent or an authorization code.
CodeInputs == {Undefined, "authcode"}

\* The error query parameter: absent, empty, or a provider error code.
ErrorInputs == {Undefined, "", "access_denied"}

\* The state query parameter, by what
\*   JSON.parse(Buffer.from(state, 'base64').toString())
\* makes of it:
\*   missing    no state parameter (or an empty one)
\*   garbage    the decoded text is not JSON; wf tells whether the message of
\*              the SyntaxError is well-formed UTF-16 (V8 quotes the offending
\*              UTF-16 code unit, which is a lone surrogate when the text has
\*              a character outside the basic plane where JSON ends)
\*   null       the decoded text is the JSON null
\*   primitive  a JSON number, string or boolean
\*   object     a JSON object; userId and platform are its keys of those
\*              names, Undefined when the key is absent
StateParam(kind, wf, userId, platform) ==
    [kind |-> kind, wf |-> wf, userId |-> userId, platform |-> platform]

\* Some platform other than p.
OtherPlatform(p) == IF p = "spotify" THEN "youtube" ELSE "spotify"

StateInputs(p) ==
    {StateParam("missing", TRUE, Undefined, Undefined),
     StateParam("garbage", TRUE, Undefined, Undefined),
     StateParam("garbage", FALSE, Undefined, Undefined),
     StateParam("null", TRUE, Undefined, Undefined),
     StateParam("primitive", TRUE, Undefined, Undefined)}
    \cup {StateParam("object", TRUE, u, sp) :
            u \in Users \cup {Undefined}, sp \in {p, OtherPlatform(p), Undefined}}

\* An Error: its message and whether the message is well-formed UTF-16.
Msg(text, arg) == [text |-> text, arg |-> arg, wellFormed |-> TRUE]

NoMsg == [text |-> NullStr, arg |-> "", wellFormed |-> TRUE]

\* const stateData = JSON.parse(Buffer.from(state, 'base64').toString());
\* const { userId, platform: statePlatform } = stateData;
\* threw: a SyntaxError of JSON.parse, or the TypeError of destructuring null.
DecodeState(state) ==
    CASE state.kind = "garbage" ->
           [threw |-> TRUE, userId |-> Undefined, statePlatform |-> Undefined,
            message |-> [text |-> "Unexpected token", arg |-> "", wellFormed |-> state.wf]]
      [] state.kind = "null" ->
           [threw |-> TRUE, userId |-> Undefined, statePlatform |-> Undefined,
            message |-> Msg("Cannot destructure property of null", "")]
      [] state.kind = "primitive" ->
           [threw |-> FALSE, userId |-> Undefined, statePlatform |-> Undefined,
            message |-> NoMsg]
      [] OTHER ->
           [threw |-> FALSE, userId |-> state.userId, statePlatform |-> state.platform,
            message |-> NoMsg]

\* ------------------------------------------------------------------ responses
NoResponse ==
    [kind |-> "none", platform |-> NullStr, error |-> NoMsg,
     connected |-> NullStr, success |-> FALSE]

\* res.redirect(`${FRONTEND_URL}/auth/callback/${platform}?error=${...}`)
ErrorRedirect(platform, message) ==
    [kind |-> "redirect", platform |-> platform, error |-> message,
     connected |-> NullStr, success |-> FALSE]

\* res.redirect(`${FRONTEND_URL}/auth/callback/${platform}?connected=${platform}&success=true`)
SuccessRedirect(platform) ==
    [kind |-> "redirect", platform |-> platform, error |-> NoMsg,
     connected |-> platform, success |-> TRUE]

\* The async handler's promise rejected: Express 4 sends nothing and the
\* rejection never reaches a handler of the application.
UnhandledRejection(platform) ==
    [kind |-> "unhandled_rejection", platform |-> platform, error |-> NoMsg,
     connected |-> NullStr, success |-> FALSE]

\* encodeURIComponent throws a URIError on a lone surrogate.
EncodeURIComponentThrows(message) == ~message.wellFormed

\* ------------------------------------------------------------------ provider
\* The switch of the callback: the exchange function a platform uses.
ExchangeStrategy(platform) ==
    CASE platform = "spotify" -> "exchangeSpotifyCode"
      [] platform \in {"youtube", "google_analytics"} -> "exchangeGoogleCode"
      [] platform \in {"facebook", "instagram"} -> "exchangeFacebookCode"
      [] platform = "twitter" -> "exchangeTwitterCode"
      [] platform = "tiktok" -> "exchangeTikTokCode"
      [] OTHER -> "none"

\* ------------------------------------------------------------------ token requests
\* The HTTP request an exchange function sends: method, url, encoding of
\* the parameters, Authorization header and the parameters as (key, value)
\* pairs.
TokenRequest(method, url, encoding, authorization, params) ==
    [method |-> method, url |-> url, encoding |-> encoding,
     authorization |-> authorization, params |-> params]

NoAuthorization == [scheme |-> "none", id |-> NullStr, secret |-> NullStr]

\* `Basic ${Buffer.from(`${id}:${secret}`).toString('base64')}`
BasicAuthorization(id, secret) == [scheme |-> "Basic", id |-> id, secret |-> secret]

NoRequest == TokenRequest("none", NullStr, "none", NoAuthorization, {})

exchangeSpotifyCode(code, config) ==
    TokenRequest("POST", "https://accounts.spotify.com/api/token", "form",
                 NoAuthorization,
                 {<<"grant_type", "authorization_code">>, <<"code", code>>,
                  <<"redirect_uri", config.redirect_uri>>,
                  <<"client_id", config.client_id>>,
                  <<"client_secret", config.client_secret>>})

exchangeGoogleCode(code, config) ==
    TokenRequest("POST", "https://oauth2.googleapis.com/token", "json",
                 NoAuthorization,
                 {<<"grant_type", "authorization_code">>, <<"code", code>>,
                  <<"redirect_uri", config.redirect_uri>>,
                  <<"client_id", config.client_id>>,
                  <<"client_secret", config.client_secret>>})

exchangeFacebookCode(code, config) ==
    TokenRequest("GET", "https://graph.facebook.com/v18.0/oauth/access_token", "query",
                 NoAuthorization,
                 {<<"client_id", config.client_id>>,
                  <<"client_secret", config.client_secret>>,
                  <<"redirect_uri", config.redirect_uri>>, <<"code", code>>})

exchangeTwitterCode(code, config) ==
    TokenRequest("POST", "https://api.twitter.com/2/oauth2/token", "form",
                 BasicAuthorization(config.client_id, config.client_secret),
                 {<<"grant_type", "authorization_code">>, <<"code", code>>,
                  <<"redirect_uri", config.redirect_uri>>,
                  <<"client_id", config.client_id>>,
                  <<"code_verifier", "challenge">>})

exchangeTikTokCode(code, config) ==
    TokenRequest("POST", "https://open-api.tiktok.com/oauth/access_token/", "json",
                 NoAuthorization,
                 {<<"client_key", config.client_id>>,
                  <<"client_secret", config.client_secret>>, <<"code", code>>,
                  <<"grant_type", "authorization_code">>,
                  <<"redirect_uri", config.redirect_uri>>})

\* The request the callback's switch sends for a platform.
ExchangeRequest(platform, code, config) ==
    CASE ExchangeStrategy(platform) = "exchangeSpotifyCode" -> exchangeSpotifyCode(code, config)
      [] ExchangeStrategy(platform) = "exchangeGoogleCode" -> exchangeGoogleCode(code, config)
      [] ExchangeStrategy(platform) = "exchangeFacebookCode" -> exchangeFacebookCode(code, config)
      [] ExchangeStrategy(platform) = "exchangeTwitterCode" -> exchangeTwitterCode(code, config)
      [] ExchangeStrategy(platform) = "exchangeTikTokCode" -> exchangeTikTokCode(code, config)
      [] OTHER -> NoRequest

\* response.data of a token endpoint (tokenData); Undefined / NullTime mark
\* the keys the provider left out.
TokenData(at, rt, tt, ei, sc) ==
    [access_token |-> at, refresh_token |-> rt, token_type |-> tt,
     expires_in |-> ei, scope |-> sc]

NoTokenData == TokenData(Undefined, Undefined, Undefined, NullTime, Undefined)

\* The answers a provider gives slot r: a full one, one with only the access
\* token, and one whose expires_in is 0.
AccessTokenOf(r) == <<"at_1", "at_2", "at_3", "at_4", "at_5">>[r]

FullResponse(r) == TokenData(AccessTokenOf(r), "rt_new", "bearer", 1, "scope_new")

ProviderResponses(r) ==
    {FullResponse(r),
     TokenData(AccessTokenOf(r), Undefined, Undefined, NullTime, Undefined),
     TokenData(AccessTokenOf(r), "rt_new", "bearer", 0, "scope_new")}

\* ------------------------------------------------------------------ token table
TokenRow(id, user, platform, at, rt, tt, exp, sc, td, upd) ==
    [id |-> id, user_id |-> user, platform_id |-> platform, access_token |-> at,
     refresh_token |-> rt, token_type |-> tt, expires_at |-> exp, scope |-> sc,
     token_data |-> td, updated_at |-> upd]

\* A token stored by an earlier authorization of user u on platform p.
OldTokenRow(id, u, p) ==
    TokenRow(id, u, p, "at_old", "rt_old", "Bearer", NullTime, "scope_old",
             TokenData("at_old", "rt_old", "Bearer", NullTime, "scope_old"), 0)

\* tokenData.expires_in ? new Date(Date.now() + expires_in * 1000) : null
ExpiresAt(tokenData, t) ==
    IF tokenData.expires_in # NullTime /\ tokenData.expires_in # 0
    THEN t + tokenData.expires_in * 1000
    ELSE NullTime

\* The refresh token stored in the place of the access token.
UpsertPayloadSwapped(userId, platform, tokenData, t) ==
    [user_id |-> userId, platform_id |-> platform,
     access_token |-> tokenData.refresh_token,
     refresh_token |-> tokenData.refresh_token,
     token_type |-> Or(tokenData.token_type, "Bearer"),
     expires_at |-> ExpiresAt(tokenData, t),
     scope |-> tokenData.scope,
     token_data |-> tokenData,
     updated_at |-> t]

\* The object the callback hands to upsert.  A key whose value is undefined
\* is left out of the JSON body that reaches the store.
UpsertPayload(userId, platform, tokenData, t) ==
    [user_id |-> userId, platform_id |-> platform,
     access_token |-> tokenData.access_token,
     refresh_token |-> tokenData.refresh_token,
     token_type |-> Or(tokenData.token_type, "Bearer"),
     expires_at |-> ExpiresAt(tokenData, t),
     scope |-> tokenData.scope,
     token_data |-> tokenData,
     updated_at |-> t]

\* The value a column takes: a key left out of the body leaves the column
\* as it was (its default, null, on insert).
Col(new, old) == IF new = Undefined THEN old ELSE new

\* The first writer wins: a payload whose key has a row changes nothing.
UpsertIgnoreDuplicates(table, payload, id) ==
    LET hit == {row \in table : row.user_id = payload.user_id
                                /\ row.platform_id = payload.platform_id}
        fresh ==
            TokenRow(id, Col(payload.user_id, NullStr), payload.platform_id,
                     Col(payload.access_token, NullStr),
                     Col(payload.refresh_token, NullStr),
                     payload.token_type, payload.expires_at,
                     Col(payload.scope, NullStr),
                     payload.token_data, payload.updated_at)
    IN  IF hit = {} THEN table \cup {fresh} ELSE table

\* No conflict handling: every payload is inserted as a new row.
UpsertInsertOnly(table, payload, id) ==
    table \cup {TokenRow(id, Col(payload.user_id, NullStr), payload.platform_id,
                         Col(payload.access_token, NullStr),
                         Col(payload.refresh_token, NullStr),
                         payload.token_type, payload.expires_at,
                         Col(payload.scope, NullStr),
                         payload.token_data, payload.updated_at)}

\* upsert(payload, { onConflict: 'user_id,platform_id' }): the rows with the
\* payload's key take the payload's columns; without such a row one is
\* inserted.  A null user_id conflicts with no row.
Upsert(table, payload, id) ==
    LET hit == {row \in table : row.user_id = payload.user_id
                                /\ row.platform_id = payload.platform_id}
        merged(row) ==
            TokenRow(row.id, row.user_id, row.platform_id,
                     Col(payload.access_token, row.access_token),
                     Col(payload.refresh_token, row.refresh_token),
                     payload.token_type, payload.expires_at,
                     Col(payload.scope, row.scope),
                     payload.token_data, payload.updated_at)
        fresh ==
            TokenRow(id, Col(payload.user_id, NullStr), payload.platform_id,
                     Col(payload.access_token, NullStr),
                     Col(payload.refresh_token, NullStr),
                     payload.token_type, payload.expires_at,
                     Col(payload.scope, NullStr),
                     payload.token_data, payload.updated_at)
    IN  IF hit = {} THEN table \cup {fresh}
        ELSE (table \ hit) \cup {merged(row) : row \in hit}

\* ------------------------------------------------------------------ requests
\* A request slot before its request arrives.
IdleReq ==
    [kind |-> "none", pc |-> "idle",
     platform |-> NullStr, code |-> Undefined, error |-> Undefined,
     state |-> StateParam("missing", TRUE, Undefined, Undefined),
     userId |-> Undefined, platformConfig |-> NoRow, tokenData |-> NoTokenData,
     payload |-> UpsertPayload(Undefined, NullStr, NoTokenData, NullTime),
     strategy |-> "none", hung |-> FALSE, cfgFails |-> FALSE,
     response |-> NoResponse, redirects |-> 0,
     decodes |-> 0, cfgLookups |-> 0, exchanges |-> 0, upserts |-> 0, writes |-> 0,
     data |-> <<>>, toDelete |-> <<>>, deletes |-> 0, result |-> Undefined,
     after |-> {}, queryFails |-> FALSE, failed |-> 0, at |-> NullTime,
     request |-> NoRequest, route |-> "none", caller |-> Undefined]

\* The slots whose request has ended (a request that arrives now comes after
\* them).
Completed == {q \in DOMAIN req : req[q].pc = "done"}

\* The catch block of the callback: redirect with the error's message, unless
\* encodeURIComponent throws inside the catch block.
Catch(rq, message) ==
    IF EncodeURIComponentThrows(message)
    THEN [rq EXCEPT !.pc = "done", !.response = UnhandledRejection(rq.platform)]
    ELSE [rq EXCEPT !.pc = "done", !.response = ErrorRedirect(rq.platform, message),
                    !.redirects = @ + 1]

\* The platform check left out.
PlatformMatchesSkipped(platform, statePlatform) == TRUE

\* The platform check of the callback: the state's platform is the path's.
PlatformMatches(platform, statePlatform) == platform = statePlatform

\* The provider's error not looked at.
ProviderErrorIgnored(error) == FALSE

\* if (error): the provider reported an error in the query.
ProviderErrorPresent(error) == ~Falsy(error)

\* Only the code is required.
MissingCodeOnly(code, state) == Falsy(code)

\* if (!code || !state)
MissingParameters(code, state) == Falsy(code) \/ state.kind = "missing"

\* The handler from its entry to its first await (or to its response).
CallbackEntry(rq) ==
    IF ProviderErrorPresent(rq.error)
    THEN [rq EXCEPT !.pc = "done", !.redirects = @ + 1,
                    !.response = ErrorRedirect(rq.platform, Msg(rq.error, ""))]
    ELSE IF MissingParameters(rq.code, rq.state)
    THEN [rq EXCEPT !.pc = "done", !.redirects = @ + 1,
                    !.response = ErrorRedirect(rq.platform, Msg("missing_parameters", ""))]
    ELSE LET d == DecodeState(rq.state)
             rd == [rq EXCEPT !.decodes = @ + 1]
         IN  IF d.threw THEN Catch(rd, d.message)
             ELSE IF ~PlatformMatches(rq.platform, d.statePlatform)
             THEN Catch(rd, Msg("Platform mismatch in state", ""))
             ELSE [rd EXCEPT !.userId = d.userId, !.pc = "cfg_query",
                             !.cfgLookups = @ + 1]

\* GET /api/auth/callback/:platform arrives in slot r.
CallbackStart(r, platform, code, state, error) ==
    /\ req[r].pc = "idle"
    /\ req' = [req EXCEPT ![r] =
                 CallbackEntry([IdleReq EXCEPT !.kind = "callback", !.platform = platform,
                                               !.code = code, !.state = state,
                                               !.error = error, !.after = Completed])]
    /\ UNCHANGED <<user_ai_usage, aiReq, usageAtStart, codec, uniqueKey, platform_oauth_configs, platform_settings, oauth_tokens, nextId, now, cfgCall>>

\* The row the callback takes for its platform (data of the query; the
\* query's error is not read).
CallbackConfig(platform, fails) ==
    SelectEnabledSingle(platform_oauth_configs, platform, fails).data

\* The config query of the callback returns; the handler runs to the
\* exchange call.  hangs: the provider never answers that call.
CallbackConfigReturn(r, fails, hangs) ==
    /\ req[r].kind = "callback" /\ req[r].pc = "cfg_query"
    /\ LET rq == [req[r] EXCEPT !.platformConfig = CallbackConfig(req[r].platform, fails),
                                !.cfgFails = fails]
       IN  req' = [req EXCEPT ![r] =
             IF rq.platformConfig = NoRow
             THEN Catch(rq, Msg("Platform not configured or not enabled", rq.platform))
             ELSE IF ExchangeStrategy(rq.platform) = "none"
             THEN Catch(rq, Msg("OAuth not implemented for platform", rq.platform))
             ELSE [rq EXCEPT !.pc = "exchange", !.exchanges = @ + 1, !.hung = hangs,
                             !.strategy = ExchangeStrategy(rq.platform),
                             !.request = ExchangeRequest(rq.platform, rq.code,
                                                         rq.platformConfig)]]
    /\ UNCHANGED <<user_ai_usage, aiReq, usageAtStart, codec, uniqueKey, platform_oauth_configs, platform_settings, oauth_tokens, nextId, now, cfgCall>>

\* One pending provider call blocks every handler.
ResumableWhenNoneHangs(r) == \A q \in DOMAIN req : ~req[q].hung

\* The awaited call of slot r can return: a handler waits for its own call
\* only.
Resumable(r) == ~req[r].hung

\* The failed exchange call made a second time before the catch block runs.
CallbackExchangeRetries(r) ==
    /\ req[r].kind = "callback" /\ req[r].pc = "exchange" /\ Resumable(r)
    /\ req' = [req EXCEPT ![r] =
                 IF req[r].exchanges < 2
                 THEN [req[r] EXCEPT !.exchanges = @ + 1]
                 ELSE Catch(req[r], Msg("Request failed with status code", "400"))]
    /\ UNCHANGED <<user_ai_usage, aiReq, usageAtStart, codec, uniqueKey, platform_oauth_configs, platform_settings, oauth_tokens, nextId, now, cfgCall>>

\* The exchange call fails (axios rejects): no retry, the catch block runs.
CallbackExchangeFails(r) ==
    /\ req[r].kind = "callback" /\ req[r].pc = "exchange" /\ Resumable(r)
    /\ req' = [req EXCEPT ![r] = Catch(req[r], Msg("Request failed with status code", "400"))]
    /\ UNCHANGED <<user_ai_usage, aiReq, usageAtStart, codec, uniqueKey, platform_oauth_configs, platform_settings, oauth_tokens, nextId, now, cfgCall>>

\* The exchange call returns tokenData; the handler issues the upsert.
CallbackExchangeReturn(r, tokenData) ==
    /\ req[r].kind = "callback" /\ req[r].pc = "exchange" /\ Resumable(r)
    /\ req' = [req EXCEPT ![r] =
                 [req[r] EXCEPT !.tokenData = tokenData, !.pc = "upsert", !.upserts = @ + 1,
                                !.payload = UpsertPayload(req[r].userId, req[r].platform,
                                                          tokenData, now)]]
    /\ UNCHANGED <<user_ai_usage, aiReq, usageAtStart, codec, uniqueKey, platform_oauth_configs, platform_settings, oauth_tokens, nextId, now, cfgCall>>

\* storeError not looked at: the success redirect after a failed upsert.
CallbackUpsertErrorIgnored(r) ==
    /\ req[r].kind = "callback" /\ req[r].pc = "upsert"
    /\ req' = [req EXCEPT ![r] =
                 [req[r] EXCEPT !.pc = "done", !.redirects = @ + 1,
                                !.response = SuccessRedirect(req[r].platform)]]
    /\ UNCHANGED <<user_ai_usage, aiReq, usageAtStart, codec, uniqueKey, platform_oauth_configs, platform_settings, oauth_tokens, nextId, now, cfgCall>>

\* The upsert reports an error (storeError): thrown into the catch block.
CallbackUpsertFails(r) ==
    /\ req[r].kind = "callback" /\ req[r].pc = "upsert"
    /\ req' = [req EXCEPT ![r] = Catch(req[r], Msg("store_error", ""))]
    /\ UNCHANGED <<user_ai_usage, aiReq, usageAtStart, codec, uniqueKey, platform_oauth_configs, platform_settings, oauth_tokens, nextId, now, cfgCall>>

\* The upsert is applied and reports no error: the success redirect.  ON
\* CONFLICT (user_id, platform_id) needs the unique index on these columns;
\* without it the store answers every upsert with an error.
CallbackUpsertReturn(r) ==
    /\ req[r].kind = "callback" /\ req[r].pc = "upsert"
    /\ uniqueKey
    /\ oauth_tokens' = Upsert(oauth_tokens, req[r].payload, nextId)
    /\ nextId' = nextId + 1
    /\ req' = [req EXCEPT ![r] =
                 [req[r] EXCEPT !.pc = "done", !.writes = @ + 1, !.redirects = @ + 1,
                                !.response = SuccessRedirect(req[r].platform)]]
    /\ UNCHANGED <<user_ai_usage, aiReq, usageAtStart, codec, uniqueKey, platform_oauth_configs, platform_settings, now, cfgCall>>

\* ------------------------------------------------------------------ getUserOAuthToken
\* The rows of a key, most recent first, as .order('updated_at',
\* { ascending: false }) can return them (rows of equal updated_at in any order).
SortedDesc(rows) ==
    {sq \in [1..Cardinality(rows) -> rows] :
        /\ \A i, j \in 1..Cardinality(rows) : i # j => sq[i] # sq[j]
        /\ \A i, j \in 1..Cardinality(rows) : i < j => sq[i].updated_at >= sq[j].updated_at}

KeyRows(userId, platform) ==
    {row \in oauth_tokens : row.user_id = userId /\ row.platform_id = platform}

\* What getUserOAuthToken returns for the most recent row at time t: null
\* when the row has expired, its access token otherwise.
TokenOutcome(tokenData, t) ==
    IF tokenData.expires_at # NullTime /\ tokenData.expires_at < t
    THEN NullStr
    ELSE tokenData.access_token

\* A route calls getUserOAuthToken(userId, platform) in slot r: the select
\* is issued.
FetchStart(r, userId, platform) ==
    /\ req[r].pc = "idle"
    /\ req' = [req EXCEPT ![r] = [IdleReq EXCEPT !.kind = "fetch", !.pc = "tok_query",
                                                 !.userId = userId, !.platform = platform,
                                                 !.after = Completed]]
    /\ UNCHANGED <<user_ai_usage, aiReq, usageAtStart, codec, uniqueKey, platform_oauth_configs, platform_settings, oauth_tokens, nextId, now, cfgCall>>

\* The select reports an error (or throws): null is returned.
FetchQueryFails(r) ==
    /\ req[r].kind = "fetch" /\ req[r].pc = "tok_query"
    /\ req' = [req EXCEPT ![r] = [req[r] EXCEPT !.pc = "done", !.result = NullStr,
                                                !.queryFails = TRUE]]
    /\ UNCHANGED <<user_ai_usage, aiReq, usageAtStart, codec, uniqueKey, platform_oauth_configs, platform_settings, oauth_tokens, nextId, now, cfgCall>>

\* The select returns data: no row gives null; one row is evaluated; more
\* rows start the clean-up of data.slice(1).
FetchQueryReturn(r, data) ==
    /\ req[r].kind = "fetch" /\ req[r].pc = "tok_query"
    /\ data \in SortedDesc(KeyRows(req[r].userId, req[r].platform))
    /\ req' = [req EXCEPT ![r] =
                 IF Len(data) = 0
                 THEN [req[r] EXCEPT !.pc = "done", !.result = NullStr]
                 ELSE IF Len(data) > 1
                 THEN [req[r] EXCEPT !.pc = "delete", !.data = data, !.toDelete = Tail(data)]
                 ELSE [req[r] EXCEPT !.pc = "done", !.data = data, !.at = now,
                                     !.result = TokenOutcome(data[1], now)]]
    /\ UNCHANGED <<user_ai_usage, aiReq, usageAtStart, codec, uniqueKey, platform_oauth_configs, platform_settings, oauth_tokens, nextId, now, cfgCall>>

\* The rows one delete of the clean-up loop removes: those of the key whose
\* updated_at is the duplicate's.
DeleteMatches(userId, platform, token) ==
    {row \in oauth_tokens : /\ row.user_id = userId
                            /\ row.platform_id = platform
                            /\ row.updated_at = token.updated_at}

\* A failed delete ends the clean-up and the call: null is returned.
FetchDeleteStopsOnFailure(r, fails) ==
    /\ req[r].kind = "fetch" /\ req[r].pc = "delete"
    /\ oauth_tokens' =
         IF fails THEN oauth_tokens
         ELSE oauth_tokens \ DeleteMatches(req[r].userId, req[r].platform,
                                           Head(req[r].toDelete))
    /\ req' = [req EXCEPT ![r] =
                 LET rq == [req[r] EXCEPT !.deletes = @ + 1,
                                          !.failed = IF fails THEN @ + 1 ELSE @]
                 IN  IF fails
                     THEN [rq EXCEPT !.toDelete = <<>>, !.pc = "done", !.at = now,
                                     !.result = NullStr]
                     ELSE IF Len(req[r].toDelete) > 1
                     THEN [rq EXCEPT !.toDelete = Tail(@)]
                     ELSE [rq EXCEPT !.toDelete = <<>>, !.pc = "done", !.at = now,
                                     !.result = TokenOutcome(req[r].data[1], now)]]
    /\ UNCHANGED <<user_ai_usage, aiReq, usageAtStart, codec, uniqueKey, platform_oauth_configs, platform_settings, nextId, now, cfgCall>>

\* One delete of the clean-up loop returns (fails: it removed nothing; the
\* failure is logged at most).  After the last one data[0] is evaluated.
FetchDelete(r, fails) ==
    /\ req[r].kind = "fetch" /\ req[r].pc = "delete"
    /\ oauth_tokens' =
         IF fails THEN oauth_tokens
         ELSE oauth_tokens \ DeleteMatches(req[r].userId, req[r].platform,
                                           Head(req[r].toDelete))
    /\ req' = [req EXCEPT ![r] =
                 LET rq == [req[r] EXCEPT !.deletes = @ + 1,
                                          !.failed = IF fails THEN @ + 1 ELSE @]
                 IN  IF Len(req[r].toDelete) > 1
                     THEN [rq EXCEPT !.toDelete = Tail(@)]
                     ELSE [rq EXCEPT !.toDelete = <<>>, !.pc = "done", !.at = now,
                                     !.result = TokenOutcome(req[r].data[1], now)]]
    /\ UNCHANGED <<user_ai_usage, aiReq, usageAtStart, codec, uniqueKey, platform_oauth_configs, platform_settings, nextId, now, cfgCall>>

\* ------------------------------------------------------------------ clock, config calls
\* Time passes (half a second).
Tick ==
    /\ now < MaxTicks * 500
    /\ now' = now + 500
    /\ UNCHANGED <<user_ai_usage, aiReq, usageAtStart, codec, uniqueKey, platform_oauth_configs, platform_settings, oauth_tokens, nextId, req, cfgCall>>

NoCall ==
    [called |-> FALSE, platform |-> NullStr, primaryFails |-> FALSE,
     legacyFails |-> FALSE, result |-> NoRow]

\* A caller awaits getPlatformConfig(platform).
ResolveConfig(platform, primaryFails, legacyFails) ==
    /\ cfgCall' = [called |-> TRUE, platform |-> platform, primaryFails |-> primaryFails,
                   legacyFails |-> legacyFails,
                   result |-> getPlatformConfig(platform, primaryFails, legacyFails)]
    /\ UNCHANGED <<user_ai_usage, aiReq, usageAtStart, codec, uniqueKey, platform_oauth_configs, platform_settings, oauth_tokens, nextId, now, req>>

\* ------------------------------------------------------------------ specifications
\* Tables that hold, for every platform of ps, the rows of one shape.  A
\* query reads the rows of one platform only.
PrimaryTable(ps, shape) == UNION {PrimaryRowsOf(p, shape) : p \in ps}

LegacyTable(ps, shape, form) == UNION {LegacyRowsOf(p, shape, form) : p \in ps}

PlatformOrder ==
    <<"spotify", "youtube", "google_analytics", "facebook", "instagram", "twitter",
      "tiktok", "soundcloud">>

InitialTokens == {OldTokenRow(i, "u1", PlatformOrder[i]) : i \in 1..Len(PlatformOrder)}

\* Spec: one callback invocation, over every input and every shape of the
\* config tables; user u1 already holds a token on every platform.
Init ==
    /\ user_ai_usage = NoRow /\ aiReq = <<>> /\ usageAtStart = NoRow
    /\ codec = NoCodec
    /\ platform_oauth_configs \in {PrimaryTable(Platforms, sh) : sh \in CfgShapes}
    /\ platform_settings \in {LegacyTable(Platforms, sh, "columns") : sh \in CfgShapes}
    /\ oauth_tokens = InitialTokens
    /\ uniqueKey = TRUE
    /\ nextId = Len(PlatformOrder) + 1
    /\ now = 0
    /\ req = [r \in {1} |-> IdleReq]
    /\ cfgCall = NoCall

Next ==
    \/ \E r \in DOMAIN req, p \in Platforms, c \in CodeInputs, e \in ErrorInputs :
         \E st \in StateInputs(p) : CallbackStart(r, p, c, st, e)
    \/ \E r \in DOMAIN req, fails \in BOOLEAN, hangs \in BOOLEAN :
         CallbackConfigReturn(r, fails, hangs)
    \/ \E r \in DOMAIN req : CallbackExchangeFails(r)
    \/ \E r \in DOMAIN req : \E td \in ProviderResponses(r) : CallbackExchangeReturn(r, td)
    \/ \E r \in DOMAIN req : CallbackUpsertFails(r)
    \/ \E r \in DOMAIN req : CallbackUpsertReturn(r)
    \/ Tick

Spec == Init /\ [][Next]_vars

\* ConfigSpec: calls of getPlatformConfig over config tables in which two
\* platforms hold rows of independent shapes.
CfgPlatforms == {"spotify", "facebook"}

InitConfig ==
    /\ user_ai_usage = NoRow /\ aiReq = <<>> /\ usageAtStart = NoRow
    /\ codec = NoCodec
    /\ platform_oauth_configs \in
         {PrimaryRowsOf("spotify", s1) \cup PrimaryRowsOf("facebook", s2) :
            s1 \in CfgShapes, s2 \in CfgShapes}
    /\ platform_settings \in
         {LegacyRowsOf("spotify", s1, f) \cup LegacyRowsOf("facebook", s2, f) :
            s1 \in CfgShapes, s2 \in CfgShapes, f \in LegacyForms}
    /\ oauth_tokens = {}
    /\ uniqueKey = TRUE
    /\ nextId = 1
    /\ now = 0
    /\ req = [r \in {1} |-> IdleReq]
    /\ cfgCall = NoCall

NextConfig ==
    \E p \in CfgPlatforms \cup {"tiktok"}, pf \in BOOLEAN, lf \in BOOLEAN :
        ResolveConfig(p, pf, lf)

ConfigSpec == InitConfig /\ [][NextConfig]_vars

\* FairSpec: callbacks and token fetches of user u1 on spotify in flight
\* together, spotify configured; the key holds one row in a table with the
\* unique index, or two rows in a table without it.
DuplicateTokens ==
    {OldTokenRow(1, "u1", "spotify"),
     TokenRow(2, "u1", "spotify", "at_older", "rt_older", "Bearer", NullTime,
              "scope_old", TokenData("at_older", "rt_older", "Bearer", NullTime, "scope_old"),
              -500)}

InitConc ==
    /\ user_ai_usage = NoRow /\ aiReq = <<>> /\ usageAtStart = NoRow
    /\ codec = NoCodec
    /\ platform_oauth_configs = PrimaryTable({"spotify"}, [en |-> 1, dis |-> 0])
    /\ platform_settings = {}
    /\ \/ oauth_tokens = {OldTokenRow(1, "u1", "spotify")} /\ uniqueKey = TRUE
       \/ oauth_tokens = DuplicateTokens /\ uniqueKey = FALSE
    /\ nextId = 3
    /\ now = 0
    /\ req = [r \in 1..MaxReqs |-> IdleReq]
    /\ cfgCall = NoCall

\* A step that resumes the handler of slot r: the call it awaits returns
\* (the steps of NextConc other than the arrival of a request).
Resume(r) ==
    \/ \E hangs \in BOOLEAN : CallbackConfigReturn(r, FALSE, hangs)
    \/ CallbackExchangeFails(r)
    \/ CallbackExchangeReturn(r, FullResponse(r))
    \/ CallbackUpsertFails(r)
    \/ CallbackUpsertReturn(r)
    \/ FetchQueryFails(r)
    \/ \E data \in SortedDesc(KeyRows(req[r].userId, req[r].platform)) :
         FetchQueryReturn(r, data)
    \/ \E fails \in BOOLEAN : FetchDelete(r, fails)

\* Requests take the slots in the order of their arrival.
NextSlot(r) == \A q \in DOMAIN req : q < r => req[q].pc # "idle"

NextConc ==
    \/ \E r \in DOMAIN req :
         /\ NextSlot(r)
         /\ CallbackStart(r, "spotify", "authcode",
                          StateParam("object", TRUE, "u1", "spotify"), Undefined)
    \/ \E r \in DOMAIN req : NextSlot(r) /\ FetchStart(r, "u1", "spotify")
    \/ \E r \in DOMAIN req, hangs \in BOOLEAN : CallbackConfigReturn(r, FALSE, hangs)
    \/ \E r \in DOMAIN req : CallbackExchangeFails(r)
    \/ \E r \in DOMAIN req : CallbackExchangeReturn(r, FullResponse(r))
    \/ \E r \in DOMAIN req : CallbackUpsertFails(r)
    \/ \E r \in DOMAIN req : CallbackUpsertReturn(r)
    \/ \E r \in DOMAIN req : FetchQueryFails(r)
    \/ \E r \in DOMAIN req :
         \E data \in SortedDesc(KeyRows(req[r].userId, req[r].platform)) :
            FetchQueryReturn(r, data)
    \/ \E r \in DOMAIN req, fails \in BOOLEAN : FetchDelete(r, fails)

\* The event loop runs a handler whose awaited call has returned, and the
\* calls of a request that does not hang return.
FairSpec ==
    InitConc /\ [][NextConc]_vars /\ \A r \in 1..MaxReqs : WF_vars(Resume(r))

\* TokenSpec: token fetches of user u1 on spotify that arrive one after the
\* other, over every content of the key: no row or one row with or without
\* the unique index, and, without the index, up to MaxDup rows of any
\* updated_at (equal ones too) and any expiry.
UpdatedAts == {-1000, -500, 0}

StoredTokenOf(i) == <<"st_1", "st_2", "st_3", "st_4", "st_5">>[i]

StoredRow(i, upd, exp) ==
    TokenRow(i, "u1", "spotify", StoredTokenOf(i), "rt_old", "Bearer", exp, "scope_old",
             TokenData(StoredTokenOf(i), "rt_old", "Bearer", NullTime, "scope_old"), upd)

\* The token of another user on the same platform.
OtherKeyRow == OldTokenRow(MaxDup + 1, "u2", "spotify")

\* The token tables with n rows for the key of u1 on spotify: any
\* updated_at per row, and the first k rows carrying an expires_at (the
\* code never reads a row's id, so which rows they are does not matter).
StoredTokens(n) ==
    {{StoredRow(i, upd[i], IF i <= k THEN 0 ELSE NullTime) : i \in 1..n} \cup {OtherKeyRow} :
        upd \in [1..n -> UpdatedAts], k \in 0..n}

InitToken ==
    /\ user_ai_usage = NoRow /\ aiReq = <<>> /\ usageAtStart = NoRow
    /\ codec = NoCodec
    /\ platform_oauth_configs = PrimaryTable({"spotify"}, [en |-> 1, dis |-> 0])
    /\ platform_settings = {}
    /\ \E n \in 0..MaxDup :
         /\ oauth_tokens \in StoredTokens(n)
         /\ uniqueKey \in (IF n <= 1 THEN BOOLEAN ELSE {FALSE})
    /\ nextId = MaxDup + 2
    /\ now = 0
    /\ req = [r \in 1..MaxFetches |-> IdleReq]
    /\ cfgCall = NoCall

\* The request of slot r arrives when the requests before it have ended.
InTurn(r) ==
    \A q \in DOMAIN req : IF q < r THEN req[q].pc = "done" ELSE req[q].pc = "idle"

NextToken ==
    \/ \E r \in DOMAIN req : InTurn(r) /\ FetchStart(r, "u1", "spotify")
    \/ \E r \in DOMAIN req : FetchQueryFails(r)
    \/ \E r \in DOMAIN req :
         \E data \in SortedDesc(KeyRows(req[r].userId, req[r].platform)) :
            FetchQueryReturn(r, data)
    \/ \E r \in DOMAIN req, fails \in BOOLEAN : FetchDelete(r, fails)
    \/ Tick

TokenSpec == InitToken /\ [][NextToken]_vars

\* UpsertSpec: callbacks and token fetches of user u1 on spotify that
\* arrive one after the other; the table has the unique index and the key
\* holds no row or one, or it has no such index and the key holds two rows.
InitUpsert ==
    /\ user_ai_usage = NoRow /\ aiReq = <<>> /\ usageAtStart = NoRow
    /\ codec = NoCodec
    /\ platform_oauth_configs = PrimaryTable({"spotify"}, [en |-> 1, dis |-> 0])
    /\ platform_settings = {}
    /\ \/ oauth_tokens \in StoredTokens(0) \cup StoredTokens(1) /\ uniqueKey = TRUE
       \/ oauth_tokens \in StoredTokens(2) /\ uniqueKey = FALSE
    /\ nextId = MaxDup + 2
    /\ now = 0
    /\ req = [r \in 1..MaxReqs |-> IdleReq]
    /\ cfgCall = NoCall

NextUpsert ==
    \/ \E r \in DOMAIN req :
         /\ InTurn(r)
         /\ CallbackStart(r, "spotify", "authcode",
                          StateParam("object", TRUE, "u1", "spotify"), Undefined)
    \/ \E r \in DOMAIN req : InTurn(r) /\ FetchStart(r, "u1", "spotify")
    \/ \E r \in DOMAIN req : CallbackConfigReturn(r, FALSE, FALSE)
    \/ \E r \in DOMAIN req : CallbackExchangeFails(r)
    \/ \E r \in DOMAIN req : CallbackExchangeReturn(r, FullResponse(r))
    \/ \E r \in DOMAIN req : CallbackUpsertFails(r)
    \/ \E r \in DOMAIN req : CallbackUpsertReturn(r)
    \/ \E r \in DOMAIN req : FetchQueryFails(r)
    \/ \E r \in DOMAIN req :
         \E data \in SortedDesc(KeyRows(req[r].userId, req[r].platform)) :
            FetchQueryReturn(r, data)
    \/ \E r \in DOMAIN req, fails \in BOOLEAN : FetchDelete(r, fails)
    \/ Tick

UpsertSpec == InitUpsert /\ [][NextUpsert]_vars

\* ------------------------------------------------------------------ API routes
\* The Authorization header of a request: none, a bearer token Supabase
\* does not accept, or the JWT of a user.
Jwt(u) == IF u = "u1" THEN "jwt_u1" ELSE "jwt_u2"

Bearers == {Undefined, "invalid"} \cup {Jwt(u) : u \in Users}

\* The user supabase.auth.getUser(token) verifies for the header, Undefined
\* when there is no header or no user (extractUserId then answers 401).
extractUserId(bearer) ==
    IF \E u \in Users : bearer = Jwt(u)
    THEN CHOOSE u \in Users : bearer = Jwt(u)
    ELSE Undefined

\* A route behind extractUserId, such as GET /api/spotify/me: 401 without a
\* verified user, else getUserOAuthToken(req.userId, platform).
AuthenticatedRoute(r, bearer, platform) ==
    /\ req[r].pc = "idle"
    /\ req' = [req EXCEPT ![r] =
                 IF extractUserId(bearer) = Undefined
                 THEN [IdleReq EXCEPT !.kind = "api", !.pc = "done",
                                      !.route = "authenticated", !.platform = platform,
                                      !.after = Completed]
                 ELSE [IdleReq EXCEPT !.kind = "fetch", !.pc = "tok_query",
                                      !.route = "authenticated",
                                      !.caller = extractUserId(bearer),
                                      !.userId = extractUserId(bearer),
                                      !.platform = platform, !.after = Completed]]
    /\ UNCHANGED <<user_ai_usage, aiReq, usageAtStart, codec, uniqueKey, platform_oauth_configs, platform_settings, oauth_tokens, nextId, now, cfgCall>>

\* GET /api/platforms/:platform/properties/:userId: no middleware; the user
\* id is the path's.  caller is who the request's header verifies as, which
\* the route never looks at.
PropertiesRoute(r, bearer, platform, userId) ==
    /\ req[r].pc = "idle"
    /\ req' = [req EXCEPT ![r] =
                 [IdleReq EXCEPT !.kind = "fetch", !.pc = "tok_query",
                                 !.route = "properties",
                                 !.caller = extractUserId(bearer),
                                 !.userId = userId, !.platform = platform,
                                 !.after = Completed]]
    /\ UNCHANGED <<user_ai_usage, aiReq, usageAtStart, codec, uniqueKey, platform_oauth_configs, platform_settings, oauth_tokens, nextId, now, cfgCall>>

\* POST /api/analytics/:platformId: no middleware; the user id is the
\* body's.
AnalyticsRoute(r, bearer, platformId, userId) ==
    /\ req[r].pc = "idle"
    /\ req' = [req EXCEPT ![r] =
                 [IdleReq EXCEPT !.kind = "fetch", !.pc = "tok_query",
                                 !.route = "analytics",
                                 !.caller = extractUserId(bearer),
                                 !.userId = userId, !.platform = platformId,
                                 !.after = Completed]]
    /\ UNCHANGED <<user_ai_usage, aiReq, usageAtStart, codec, uniqueKey, platform_oauth_configs, platform_settings, oauth_tokens, nextId, now, cfgCall>>

\* ApiSpec: API requests with every Authorization header, for two users:
\* u1 holds one spotify token, u2 two spotify rows (a table without the
\* unique index).
ApiPlatforms == {"spotify", "google_analytics"}

ApiTokens ==
    {TokenRow(1, "u1", "spotify", "at_u1", "rt_u1", "Bearer", NullTime, "scope_old",
              TokenData("at_u1", "rt_u1", "Bearer", NullTime, "scope_old"), 0),
     TokenRow(2, "u2", "spotify", "at_u2", "rt_u2", "Bearer", NullTime, "scope_old",
              TokenData("at_u2", "rt_u2", "Bearer", NullTime, "scope_old"), 0),
     TokenRow(3, "u2", "spotify", "at_u2_older", "rt_u2", "Bearer", NullTime, "scope_old",
              TokenData("at_u2_older", "rt_u2", "Bearer", NullTime, "scope_old"), -500)}

InitApi ==
    /\ user_ai_usage = NoRow /\ aiReq = <<>> /\ usageAtStart = NoRow
    /\ codec = NoCodec
    /\ platform_oauth_configs = {}
    /\ platform_settings = {}
    /\ oauth_tokens = ApiTokens
    /\ uniqueKey = FALSE
    /\ nextId = 4
    /\ now = 0
    /\ req = [r \in 1..MaxFetches |-> IdleReq]
    /\ cfgCall = NoCall

NextApi ==
    \/ \E r \in DOMAIN req, b \in Bearers, p \in ApiPlatforms :
         NextSlot(r) /\ AuthenticatedRoute(r, b, p)
    \/ \E r \in DOMAIN req, b \in Bearers, p \in ApiPlatforms, u \in Users :
         NextSlot(r) /\ PropertiesRoute(r, b, p, u)
    \/ \E r \in DOMAIN req, b \in Bearers, p \in ApiPlatforms, u \in Users :
         NextSlot(r) /\ AnalyticsRoute(r, b, p, u)
    \/ \E r \in DOMAIN req : FetchQueryFails(r)
    \/ \E r \in DOMAIN req :
         \E data \in SortedDesc(KeyRows(req[r].userId, req[r].platform)) :
            FetchQueryReturn(r, data)
    \/ \E r \in DOMAIN req, fails \in BOOLEAN : FetchDelete(r, fails)

ApiSpec == InitApi /\ [][NextApi]_vars

\* ------------------------------------------------------------------ AI credits
\* A row of user_ai_usage (the columns the two handlers read and write).
UsageRow(remaining, used) == [remaining_credits |-> remaining, used_credits |-> used]

\* The balance a user without remaining_credits is given by the insights
\* handler.
DefaultCredits == 100

\* (currentUsage?.field || dflt): dflt when there is no row or the field is 0.
FieldOr(currentUsage, field, dflt) ==
    IF currentUsage = NoRow \/ currentUsage[field] = 0 THEN dflt ELSE currentUsage[field]

\* Math.max(a, b)
Max(a, b) == IF a >= b THEN a ELSE b

\* The row the insights handler writes back for what it read.
InsightsPayload(currentUsage) ==
    UsageRow(Max(0, FieldOr(currentUsage, "remaining_credits", DefaultCredits) - 1),
             FieldOr(currentUsage, "used_credits", 0) + 1)

\* The row the purchase handler writes back for what it read.
PurchasePayload(currentUsage, credits) ==
    UsageRow(FieldOr(currentUsage, "remaining_credits", 0) + credits,
             FieldOr(currentUsage, "used_credits", 0))

AiIdle ==
    [kind |-> "none", pc |-> "idle", credits |-> 0, currentUsage |-> NoRow,
     payload |-> NoRow, status |-> 0, queryFailed |-> FALSE, written |-> FALSE]

\* POST /api/ai/insights with analyticsData and userId: the insights are
\* generated and the select on user_ai_usage is issued.
InsightsStart(r) ==
    /\ aiReq[r].pc = "idle"
    /\ aiReq' = [aiReq EXCEPT ![r] = [AiIdle EXCEPT !.kind = "insights", !.pc = "usage_query"]]
    /\ UNCHANGED <<user_ai_usage, usageAtStart>>
    /\ UNCHANGED <<codec, uniqueKey, platform_oauth_configs, platform_settings, oauth_tokens, nextId, now, req, cfgCall>>

\* POST /api/ai/purchase-credits with userId, credits and paymentToken: the
\* select on user_ai_usage is issued.
PurchaseStart(r, credits) ==
    /\ aiReq[r].pc = "idle"
    /\ aiReq' = [aiReq EXCEPT ![r] = [AiIdle EXCEPT !.kind = "purchase", !.pc = "usage_query",
                                                    !.credits = credits]]
    /\ UNCHANGED <<user_ai_usage, usageAtStart>>
    /\ UNCHANGED <<codec, uniqueKey, platform_oauth_configs, platform_settings, oauth_tokens, nextId, now, req, cfgCall>>

\* The select returns (data is null when it failed or found no row); the
\* handler computes the new row from what it read and issues the upsert.
UsageQueryReturn(r, fails) ==
    /\ aiReq[r].pc = "usage_query"
    /\ LET currentUsage == IF fails THEN NoRow ELSE user_ai_usage
       IN  aiReq' = [aiReq EXCEPT ![r] =
             [aiReq[r] EXCEPT !.pc = "usage_upsert", !.currentUsage = currentUsage,
                              !.queryFailed = fails,
                              !.payload = IF aiReq[r].kind = "insights"
                                          THEN InsightsPayload(currentUsage)
                                          ELSE PurchasePayload(currentUsage,
                                                               aiReq[r].credits)]]
    /\ UNCHANGED <<user_ai_usage, usageAtStart>>
    /\ UNCHANGED <<codec, uniqueKey, platform_oauth_configs, platform_settings, oauth_tokens, nextId, now, req, cfgCall>>

\* The upsert returns.  The insights handler does not look at its result and
\* answers 200 with the insights; the purchase handler answers 500 on
\* updateError and 200 otherwise.
UsageUpsertReturn(r, fails) ==
    /\ aiReq[r].pc = "usage_upsert"
    /\ user_ai_usage' = IF fails THEN user_ai_usage ELSE aiReq[r].payload
    /\ aiReq' = [aiReq EXCEPT ![r] =
                   [aiReq[r] EXCEPT !.pc = "done", !.written = ~fails,
                                    !.status = IF fails /\ aiReq[r].kind = "purchase"
                                               THEN 500 ELSE 200]]
    /\ UNCHANGED usageAtStart
    /\ UNCHANGED <<codec, uniqueKey, platform_oauth_configs, platform_settings, oauth_tokens, nextId, now, req, cfgCall>>

\* CreditsSpec: insights and purchase requests of one user in flight
\* together, over every stored balance up to MaxCredits and the user
\* without a row.
PurchaseAmounts == {1, 2}

InitCredits ==
    /\ codec = NoCodec
    /\ platform_oauth_configs = {}
    /\ platform_settings = {}
    /\ oauth_tokens = {}
    /\ uniqueKey = TRUE
    /\ nextId = 1
    /\ now = 0
    /\ req = [r \in {1} |-> IdleReq]
    /\ cfgCall = NoCall
    /\ user_ai_usage \in {NoRow} \cup
           {UsageRow(rem, used) : rem \in 0..MaxCredits, used \in 0..MaxUsed}
    /\ usageAtStart = user_ai_usage
    /\ aiReq = [r \in 1..MaxAiReqs |-> AiIdle]

AiSlot(r) == \A q \in DOMAIN aiReq : q < r => aiReq[q].pc # "idle"

NextCredits ==
    \/ \E r \in DOMAIN aiReq : AiSlot(r) /\ InsightsStart(r)
    \/ \E r \in DOMAIN aiReq, c \in PurchaseAmounts : AiSlot(r) /\ PurchaseStart(r, c)
    \/ \E r \in DOMAIN aiReq, fails \in BOOLEAN : UsageQueryReturn(r, fails)
    \/ \E r \in DOMAIN aiReq, fails \in BOOLEAN : UsageUpsertReturn(r, fails)

CreditsSpec == InitCredits /\ [][NextCredits]_vars

\* ------------------------------------------------------------------ state codec
\* Text is a sequence of character codes, a Buffer a sequence of bytes.
Chars(s) ==
    CASE s = "userId" -> <<117, 115, 101, 114, 73, 100>>
      [] s = "platform" -> <<112, 108, 97, 116, 102, 111, 114, 109>>
      [] s = "spotify" -> <<115, 112, 111, 116, 105, 102, 121>>
      [] s = "youtube" -> <<121, 111, 117, 116, 117, 98, 101>>
      [] s = "google_analytics" ->
             <<103, 111, 111, 103, 108, 101, 95, 97, 110, 97, 108, 121, 116, 105, 99, 115>>
      [] s = "facebook" -> <<102, 97, 99, 101, 98, 111, 111, 107>>
      [] s = "instagram" -> <<105, 110, 115, 116, 97, 103, 114, 97, 109>>
      [] s = "twitter" -> <<116, 119, 105, 116, 116, 101, 114>>
      [] s = "tiktok" -> <<116, 105, 107, 116, 111, 107>>
      [] s = "u1" -> <<117, 49>>
      [] s = "a\"b" -> <<97, 34, 98>>
      [] s = "a\\b" -> <<97, 92, 98>>
      [] s = "e-acute ?" -> <<233, 63>>
      [] s = "~~>" -> <<126, 126, 62>>
      [] s = "euro" -> <<8364>>
      [] s = "" -> <<>>

\* The user ids the codec is run on: plain, with a quote, with a backslash,
\* with a two-byte and a three-byte character, one whose encoding needs the
\* sextet 62, and the empty one.
UserIds == {"u1", "a\"b", "a\\b", "e-acute ?", "~~>", "euro", ""}

\* encode(userId, platformId), serialisation: the compact text
\* {"userId":"...","platform":"..."} with quote and backslash escaped.
RECURSIVE Escape(_, _)
Escape(s, i) ==
    IF i > Len(s) THEN <<>>
    ELSE (IF s[i] \in {34, 92} THEN <<92, s[i]>> ELSE <<s[i]>>) \o Escape(s, i + 1)

Quote(s) == <<34>> \o Escape(s, 1) \o <<34>>

Serialize(userId, platformId) ==
    <<123>> \o Quote(Chars("userId")) \o <<58>> \o Quote(userId)
        \o <<44>> \o Quote(Chars("platform")) \o <<58>> \o Quote(platformId) \o <<125>>

\* encode, the text as bytes (UTF-8).
RECURSIVE Utf8Encode(_, _)
Utf8Encode(s, i) ==
    IF i > Len(s) THEN <<>>
    ELSE (IF s[i] < 128 THEN <<s[i]>>
          ELSE IF s[i] < 2048 THEN <<192 + (s[i] \div 64), 128 + (s[i] % 64)>>
          ELSE <<224 + (s[i] \div 4096), 128 + ((s[i] \div 64) % 64), 128 + (s[i] % 64)>>)
         \o Utf8Encode(s, i + 1)

\* encode, the URL-safe binary-to-text transform: base64 with the alphabet
\* A-Z a-z 0-9 - _ and no padding.
Base64UrlChar(v) ==
    IF v < 26 THEN 65 + v
    ELSE IF v < 52 THEN 97 + (v - 26)
    ELSE IF v < 62 THEN 48 + (v - 52)
    ELSE IF v = 62 THEN 45 ELSE 95

RECURSIVE Base64UrlEncode(_, _)
Base64UrlEncode(b, i) ==
    LET n == Len(b) - i + 1
    IN  IF n <= 0 THEN <<>>
        ELSE IF n = 1
        THEN <<Base64UrlChar(b[i] \div 4), Base64UrlChar((b[i] % 4) * 16)>>
        ELSE IF n = 2
        THEN <<Base64UrlChar(b[i] \div 4),
               Base64UrlChar((b[i] % 4) * 16 + (b[i + 1] \div 16)),
               Base64UrlChar((b[i + 1] % 16) * 4)>>
        ELSE <<Base64UrlChar(b[i] \div 4),
               Base64UrlChar((b[i] % 4) * 16 + (b[i + 1] \div 16)),
               Base64UrlChar((b[i + 1] % 16) * 4 + (b[i + 2] \div 64)),
               Base64UrlChar(b[i + 2] % 64)>> \o Base64UrlEncode(b, i + 3)

encode(userId, platformId) ==
    Base64UrlEncode(Utf8Encode(Serialize(userId, platformId), 1), 1)

\* A decoder that knows the standard alphabet (+ and /) only.
Base64ValueStandard(c) ==
    IF c >= 65 /\ c <= 90 THEN c - 65
    ELSE IF c >= 97 /\ c <= 122 THEN c - 71
    ELSE IF c >= 48 /\ c <= 57 THEN c + 4
    ELSE IF c = 43 THEN 62
    ELSE IF c = 47 THEN 63
    ELSE -1

\* Buffer.from(state, 'base64'): the value of a character; Node reads the
\* standard and the URL-safe alphabet alike and skips every other character.
Base64Value(c) ==
    IF c >= 65 /\ c <= 90 THEN c - 65
    ELSE IF c >= 97 /\ c <= 122 THEN c - 71
    ELSE IF c >= 48 /\ c <= 57 THEN c + 4
    ELSE IF c \in {43, 45} THEN 62
    ELSE IF c \in {47, 95} THEN 63
    ELSE -1

\* The sextets of the text up to the first '='.
RECURSIVE Sextets(_, _)
Sextets(s, i) ==
    IF i > Len(s) \/ s[i] = 61 THEN <<>>
    ELSE (IF Base64Value(s[i]) = -1 THEN <<>> ELSE <<Base64Value(s[i])>>)
         \o Sextets(s, i + 1)

\* Four sextets make three bytes; a tail of three makes two, of two one.
RECURSIVE SextetBytes(_, _)
SextetBytes(x, i) ==
    LET n == Len(x) - i + 1
    IN  IF n <= 1 THEN <<>>
        ELSE IF n = 2 THEN <<x[i] * 4 + (x[i + 1] \div 16)>>
        ELSE IF n = 3
        THEN <<x[i] * 4 + (x[i + 1] \div 16), (x[i + 1] % 16) * 16 + (x[i + 2] \div 4)>>
        ELSE <<x[i] * 4 + (x[i + 1] \div 16), (x[i + 1] % 16) * 16 + (x[i + 2] \div 4),
               (x[i + 2] % 4) * 64 + x[i + 3]>> \o SextetBytes(x, i + 4)

BufferFromBase64(state) == SextetBytes(Sextets(state, 1), 1)

\* buffer.toString(): UTF-8 to text, U+FFFD for a byte that starts no
\* complete sequence.
RECURSIVE BufferToString(_, _)
BufferToString(b, i) ==
    LET cont(j) == j <= Len(b) /\ b[j] >= 128 /\ b[j] < 192
    IN  IF i > Len(b) THEN <<>>
        ELSE IF b[i] < 128 THEN <<b[i]>> \o BufferToString(b, i + 1)
        ELSE IF b[i] >= 194 /\ b[i] < 224 /\ cont(i + 1)
        THEN <<(b[i] - 192) * 64 + (b[i + 1] - 128)>> \o BufferToString(b, i + 2)
        ELSE IF b[i] >= 224 /\ b[i] < 240 /\ cont(i + 1) /\ cont(i + 2)
        THEN <<(b[i] - 224) * 4096 + (b[i + 1] - 128) * 64 + (b[i + 2] - 128)>>
                 \o BufferToString(b, i + 3)
        ELSE <<65533>> \o BufferToString(b, i + 1)

\* JSON.parse on a string literal starting after its opening quote at i:
\* the value and the position after the closing quote, or a SyntaxError.
RECURSIVE ReadString(_, _, _)
ReadString(t, i, acc) ==
    IF i > Len(t) \/ t[i] < 32 THEN [threw |-> TRUE, val |-> <<>>, next |-> i]
    ELSE IF t[i] = 34 THEN [threw |-> FALSE, val |-> acc, next |-> i + 1]
    ELSE IF t[i] = 92
    THEN IF i + 1 <= Len(t) /\ t[i + 1] \in {34, 92, 47}
         THEN ReadString(t, i + 2, acc \o <<t[i + 1]>>)
         ELSE [threw |-> TRUE, val |-> <<>>, next |-> i]
    ELSE ReadString(t, i + 1, acc \o <<t[i]>>)

ParseString(t, i) ==
    IF i <= Len(t) /\ t[i] = 34 THEN ReadString(t, i + 1, <<>>)
    ELSE [threw |-> TRUE, val |-> <<>>, next |-> i]

\* JSON.parse on the members of an object whose values are strings (the
\* texts a state holds); obj is the set of (key, value) pairs read so far, a
\* repeated key keeps its last value.
RECURSIVE ReadMembers(_, _, _)
ReadMembers(t, i, obj) ==
    LET k == ParseString(t, i)
        v == ParseString(t, k.next + 1)
        read == {kv \in obj : kv[1] # k.val} \cup {<<k.val, v.val>>}
    IN  IF k.threw \/ k.next > Len(t) \/ t[k.next] # 58 \/ v.threw \/ v.next > Len(t)
        THEN [threw |-> TRUE, obj |-> {}]
        ELSE IF t[v.next] = 44 THEN ReadMembers(t, v.next + 1, read)
        ELSE IF t[v.next] = 125 /\ v.next = Len(t) THEN [threw |-> FALSE, obj |-> read]
        ELSE [threw |-> TRUE, obj |-> {}]

JSONParse(t) ==
    IF Len(t) < 2 \/ t[1] # 123 THEN [threw |-> TRUE, obj |-> {}]
    ELSE IF Len(t) = 2 /\ t[2] = 125 THEN [threw |-> FALSE, obj |-> {}]
    ELSE ReadMembers(t, 2, {})

\* stateData.key of the destructuring.
Member(obj, key) ==
    IF \E kv \in obj : kv[1] = key THEN (CHOOSE kv \in obj : kv[1] = key)[2] ELSE Absent

\* const stateData = JSON.parse(Buffer.from(state, 'base64').toString());
\* const { userId, platform: statePlatform } = stateData;
decode(state) ==
    LET stateData == JSONParse(BufferToString(BufferFromBase64(state), 1))
    IN  [threw |-> stateData.threw,
         userId |-> Member(stateData.obj, Chars("userId")),
         statePlatform |-> Member(stateData.obj, Chars("platform"))]

\* The authorize step builds the state for a user and a platform.
CodecEncode ==
    /\ codec.pc = "start"
    /\ codec' = [codec EXCEPT !.pc = "encoded",
                              !.state = encode(Chars(codec.userId), Chars(codec.platformId))]
    /\ UNCHANGED <<user_ai_usage, aiReq, usageAtStart, uniqueKey, platform_oauth_configs, platform_settings, oauth_tokens, nextId, now, req, cfgCall>>

\* The callback decodes the state it is handed.
CodecDecode ==
    /\ codec.pc = "encoded"
    /\ codec' = [codec EXCEPT !.pc = "decoded", !.decoded = decode(codec.state)]
    /\ UNCHANGED <<user_ai_usage, aiReq, usageAtStart, uniqueKey, platform_oauth_configs, platform_settings, oauth_tokens, nextId, now, req, cfgCall>>

\* CodecSpec: one state built and decoded, over every user id of UserIds and
\* every supported platform.
InitCodec ==
    /\ user_ai_usage = NoRow /\ aiReq = <<>> /\ usageAtStart = NoRow
    /\ platform_oauth_configs = {}
    /\ platform_settings = {}
    /\ oauth_tokens = {}
    /\ uniqueKey = TRUE
    /\ nextId = 1
    /\ now = 0
    /\ req = [r \in {1} |-> IdleReq]
    /\ cfgCall = NoCall
    /\ \E u \in UserIds, p \in SupportedPlatforms :
         codec = [NoCodec EXCEPT !.pc = "start", !.userId = u, !.platformId = p]

NextCodec ==
    \/ CodecEncode
    \/ CodecDecode

CodecSpec == InitCodec /\ [][NextCodec]_vars

\* ------------------------------------------------------------------ properties
IsCallback(r) == req[r].kind = "callback"

\* No exchange call was made, no upsert issued, no row written.
NoSideEffects(r) ==
    req[r].exchanges = 0 /\ req[r].upserts = 0 /\ req[r].writes = 0

\* The invocation has ended in exactly one redirect, with error=<message>.
ErrorRedirected(r) ==
    /\ req[r].pc = "done"
    /\ req[r].redirects = 1
    /\ req[r].response.kind = "redirect"
    /\ ~req[r].response.success
    /\ req[r].response.connected = NullStr
    /\ req[r].response.error.text # NullStr
    /\ req[r].response.platform = req[r].platform

\* No provider error in the query, code and state present.
CodeAndStateOnly(r) ==
    /\ req[r].error \in {Undefined, ""}
    /\ req[r].code \notin {Undefined, ""}
    /\ req[r].state.kind # "missing"

\* C1: a callback with code and state and no provider error whose decoded
\* state names another platform than the path (or none) makes no exchange
\* call, writes no token row and ends in an error redirect.
C1_MismatchAborts ==
    \A r \in DOMAIN req :
        (/\ IsCallback(r) /\ CodeAndStateOnly(r)
         /\ req[r].state.kind \in {"object", "primitive"}
         /\ req[r].state.platform # req[r].platform)
        => (/\ NoSideEffects(r)
            /\ req[r].cfgLookups = 0
            /\ oauth_tokens = InitialTokens
            /\ ErrorRedirected(r)
            /\ req[r].response.error.text = "Platform mismatch in state")

C1_Witness ==
    \E r \in DOMAIN req :
        /\ IsCallback(r) /\ CodeAndStateOnly(r)
        /\ req[r].state.kind = "object"
        /\ req[r].state.userId = "u1"
        /\ req[r].state.platform = "youtube" /\ req[r].platform = "spotify"
        /\ \E row \in platform_oauth_configs : row.platform_id = "spotify" /\ row.enabled
        /\ ErrorRedirected(r)

\* C2: a callback whose query carries a provider error ends in the redirect
\* with error=<that error>, without state decode, config lookup, exchange
\* call or token write, whether or not code and state are present.
C2_ProviderErrorRedirects ==
    \A r \in DOMAIN req :
        (IsCallback(r) /\ req[r].error \notin {Undefined, ""})
        => (/\ ErrorRedirected(r)
            /\ req[r].response.error = Msg(req[r].error, "")
            /\ req[r].decodes = 0 /\ req[r].cfgLookups = 0
            /\ NoSideEffects(r)
            /\ oauth_tokens = InitialTokens)

C2_Witness ==
    \E r \in DOMAIN req :
        /\ IsCallback(r) /\ req[r].platform = "facebook"
        /\ req[r].error = "access_denied"
        /\ req[r].code = "authcode"
        /\ req[r].state.kind = "object" /\ req[r].state.platform = "facebook"
        /\ \E row \in platform_oauth_configs : row.platform_id = "facebook" /\ row.enabled
        /\ ErrorRedirected(r)
        /\ req[r].response.error.text = "access_denied"

\* C3: without a provider error, a callback that lacks code or lacks state
\* ends in the redirect with error=missing_parameters, without config
\* lookup, exchange call or token write.
C3_MissingParameters ==
    \A r \in DOMAIN req :
        (/\ IsCallback(r) /\ req[r].error \in {Undefined, ""}
         /\ (req[r].code \in {Undefined, ""} \/ req[r].state.kind = "missing"))
        => (/\ ErrorRedirected(r)
            /\ req[r].response.error = Msg("missing_parameters", "")
            /\ req[r].decodes = 0 /\ req[r].cfgLookups = 0
            /\ NoSideEffects(r)
            /\ oauth_tokens = InitialTokens)

C3_Witness ==
    \E r \in DOMAIN req :
        /\ IsCallback(r) /\ req[r].error = Undefined
        /\ req[r].code = "authcode" /\ req[r].state.kind = "missing"
        /\ ErrorRedirected(r)
        /\ req[r].response.error.text = "missing_parameters"

\* C4: a callback whose state fails to decode, or decodes to a structure
\* without userId or without platform, makes no exchange call, issues no
\* upsert, writes no row (none with an absent user_id) and never ends in
\* the success redirect.
C4_InvalidStateAborts ==
    \A r \in DOMAIN req :
        (/\ IsCallback(r) /\ CodeAndStateOnly(r)
         /\ (\/ req[r].state.kind \in {"garbage", "null", "primitive"}
             \/ req[r].state.userId = Undefined
             \/ req[r].state.platform = Undefined))
        => (/\ NoSideEffects(r)
            /\ ~req[r].response.success
            /\ \A row \in oauth_tokens : row.user_id # NullStr)

\* C5: a callback with valid code and state, matching platform and an
\* enabled config whose exchange and store write succeed has issued exactly
\* one upsert, for (userId of the state, platform) with the access and
\* refresh token of the provider response, and has ended in the redirect
\* with connected=<platform>&success=true; no callback ends there otherwise.
C5_SuccessfulCallback ==
    \A r \in DOMAIN req :
        /\ (/\ IsCallback(r) /\ CodeAndStateOnly(r)
            /\ req[r].state.kind = "object"
            /\ req[r].state.userId \in Users
            /\ req[r].state.platform = req[r].platform
            /\ req[r].writes >= 1)
           => (/\ req[r].pc = "done"
               /\ req[r].exchanges = 1 /\ req[r].upserts = 1 /\ req[r].writes = 1
               /\ req[r].payload.user_id = req[r].state.userId
               /\ req[r].payload.platform_id = req[r].platform
               /\ req[r].payload.access_token = req[r].tokenData.access_token
               /\ req[r].payload.refresh_token = req[r].tokenData.refresh_token
               /\ req[r].tokenData # NoTokenData
               /\ req[r].platformConfig # NoRow /\ req[r].platformConfig.enabled
               /\ req[r].redirects = 1
               /\ req[r].response = SuccessRedirect(req[r].platform)
               /\ \E row \in oauth_tokens :
                     /\ row.user_id = req[r].state.userId
                     /\ row.platform_id = req[r].platform
                     /\ row.access_token = req[r].tokenData.access_token)
        /\ (IsCallback(r) /\ req[r].response.success) => req[r].writes = 1

C5_Witness ==
    \E r \in DOMAIN req :
        /\ IsCallback(r) /\ req[r].platform = "spotify"
        /\ req[r].state.userId = "u1"
        /\ req[r].tokenData.refresh_token = "rt_new"
        /\ req[r].response = SuccessRedirect("spotify")
        /\ req[r].writes = 1

\* C6: every callback invocation that has ended has emitted exactly one
\* redirect; none ends with an exception leaving the handler.
C6_AlwaysOneRedirect ==
    \A r \in DOMAIN req :
        (IsCallback(r) /\ req[r].pc = "done")
        => (req[r].response.kind = "redirect" /\ req[r].redirects = 1)

\* The platform has no row with enabled = true in either config table.
NoEnabledRow(p) ==
    /\ ~\E row \in platform_oauth_configs : row.platform_id = p /\ row.enabled
    /\ ~\E row \in platform_settings : row.platform_id = p /\ row.enabled

\* C8: every callback for a platform without an enabled row in either
\* config source makes no exchange call, writes no token and, once ended,
\* has ended in an error redirect.
C8_NotConfiguredAborts ==
    \A r \in DOMAIN req :
        (IsCallback(r) /\ NoEnabledRow(req[r].platform))
        => (/\ NoSideEffects(r)
            /\ oauth_tokens = InitialTokens
            /\ req[r].pc \in {"cfg_query", "done"}
            /\ (req[r].pc = "done" => ErrorRedirected(r)))

\* C9: a callback for a supported platform whose config query was answered
\* went on to the exchange call exactly when getPlatformConfig returns a
\* config for the platform.
C9_CallbackUsesResolver ==
    \A r \in DOMAIN req :
        (/\ IsCallback(r) /\ req[r].platform \in SupportedPlatforms
         /\ req[r].cfgLookups = 1 /\ req[r].pc # "cfg_query" /\ ~req[r].cfgFails)
        => (req[r].exchanges = 1
              <=> getPlatformConfig(req[r].platform, FALSE, FALSE) # NoRow)

C10_PrimaryTakesPrecedence ==
    (/\ cfgCall.called /\ ~cfgCall.primaryFails
     /\ Cardinality({row \in platform_oauth_configs :
                       row.platform_id = cfgCall.platform /\ row.enabled}) = 1
     /\ \E row \in platform_settings : row.platform_id = cfgCall.platform /\ row.enabled)
    => \E row \in platform_oauth_configs :
          /\ row.platform_id = cfgCall.platform /\ row.enabled
          /\ cfgCall.result =
               [clientId |-> row.client_id, clientSecret |-> row.client_secret,
                redirectUri |-> row.redirect_uri, scopes |-> row.scopes,
                apiEndpoint |-> row.api_endpoint]
          /\ \A old \in platform_settings :
                /\ cfgCall.result.clientId \notin {old.client_id, old.setting_value.clientId}
                /\ cfgCall.result.clientSecret
                     \notin {old.client_secret, old.setting_value.clientSecret}
                /\ cfgCall.result.redirectUri
                     \notin {old.redirect_uri, old.setting_value.redirectUri}
                /\ cfgCall.result.scopes \notin {old.scopes, old.setting_value.scopes}
                /\ cfgCall.result.apiEndpoint
                     \notin {old.api_endpoint, old.setting_value.apiEndpoint}

C10_Witness ==
    /\ cfgCall.called /\ cfgCall.platform = "spotify" /\ ~cfgCall.primaryFails
    /\ \E row \in platform_settings :
          row.platform_id = "spotify" /\ row.enabled /\ row.client_id = "old_client_id"
    /\ cfgCall.result # NoRow
    /\ cfgCall.result.clientId = "new_client_id"

\* The rows with enabled = true a config table holds for a platform.
EnabledRows(table, p) == {row \in table : row.platform_id = p /\ row.enabled}

\* C11: when the primary table has no enabled row for the platform and the
\* legacy table (its query answered) holds one, getPlatformConfig returns
\* that row's configuration, each field from its dedicated column when the
\* column holds a value (not null, not empty) and otherwise from the key of
\* the settings blob; when neither table has an enabled row it returns null
\* (a value: the function does not throw).
C11_LegacyFallback ==
    cfgCall.called =>
      /\ (/\ EnabledRows(platform_oauth_configs, cfgCall.platform) = {}
          /\ ~cfgCall.legacyFails
          /\ Cardinality(EnabledRows(platform_settings, cfgCall.platform)) = 1)
         => \E old \in EnabledRows(platform_settings, cfgCall.platform) :
               cfgCall.result =
                 [clientId |-> IF old.client_id \notin {NullStr, ""}
                               THEN old.client_id ELSE old.setting_value.clientId,
                  clientSecret |-> IF old.client_secret \notin {NullStr, ""}
                                   THEN old.client_secret
                                   ELSE old.setting_value.clientSecret,
                  redirectUri |-> IF old.redirect_uri \notin {NullStr, ""}
                                  THEN old.redirect_uri
                                  ELSE old.setting_value.redirectUri,
                  scopes |-> IF old.scopes \notin {NullStr, ""}
                             THEN old.scopes ELSE old.setting_value.scopes,
                  apiEndpoint |-> IF old.api_endpoint \notin {NullStr, ""}
                                  THEN old.api_endpoint
                                  ELSE old.setting_value.apiEndpoint]
      /\ (/\ EnabledRows(platform_oauth_configs, cfgCall.platform) = {}
          /\ EnabledRows(platform_settings, cfgCall.platform) = {})
         => cfgCall.result = NoRow

C11_Witness ==
    /\ cfgCall.called /\ cfgCall.platform = "facebook"
    /\ EnabledRows(platform_oauth_configs, "facebook") = {}
    /\ \E row \in platform_oauth_configs : row.platform_id = "facebook" /\ ~row.enabled
    /\ \E old \in EnabledRows(platform_settings, "facebook") :
          old.client_id = "old_client_id" /\ old.client_secret = NullStr
          /\ old.redirect_uri = "" /\ old.setting_value = PartBlob
    /\ cfgCall.result # NoRow
    /\ cfgCall.result.clientId = "old_client_id"
    /\ cfgCall.result.clientSecret = "blob_client_secret"
    /\ cfgCall.result.redirectUri = "blob_redirect_uri"
    /\ cfgCall.result.apiEndpoint = Undefined


\* The call queried the legacy table: the primary query gave an error or
\* no single enabled row.
LegacyQueried ==
    cfgCall.primaryFails
      \/ Cardinality(EnabledRows(platform_oauth_configs, cfgCall.platform)) # 1

\* C12: a getPlatformConfig call one of whose queries failed in transport
\* ends in an outcome other than the one it returns when the tables answer
\* and hold no enabled row (null).
C12_TransportErrorDistinct ==
    (/\ cfgCall.called
     /\ (cfgCall.primaryFails \/ (LegacyQueried /\ cfgCall.legacyFails)))
    => cfgCall.result # NoRow


IsFetch(r) == req[r].kind = "fetch"

\* No request has arrived since the request of slot r ended.
Latest(r) == \A q \in DOMAIN req : r \notin req[q].after

\* The fetch of slot r has ended, its select having returned one row or
\* more.
FetchedRows(r) ==
    /\ IsFetch(r) /\ req[r].pc = "done"
    /\ ~req[r].queryFails /\ Len(req[r].data) >= 1

\* C13: once a fetch that read one row or more for the key has ended, with
\* every deletion succeeding and no other request since, the store holds
\* exactly one row for the key: the row the fetch evaluated (data[0]), whose
\* updated_at is the greatest among the rows read.
C13_DedupKeepsNewest ==
    \A r \in DOMAIN req :
        (FetchedRows(r) /\ req[r].failed = 0 /\ Latest(r))
        => /\ KeyRows(req[r].userId, req[r].platform) = {req[r].data[1]}
           /\ \A i \in 1..Len(req[r].data) :
                 req[r].data[1].updated_at >= req[r].data[i].updated_at


\* C14: a fetch that has ended on the rows it read returned null when the
\* expires_at of the row it evaluated (data[0]) lies strictly before the
\* time of the evaluation, and that row is still in the store; it returned
\* the row's access token when expires_at is null or not before that time.
C14_ExpiredIsNoToken ==
    \A r \in DOMAIN req :
        (FetchedRows(r) /\ Latest(r))
        => IF req[r].data[1].expires_at # NullTime /\ req[r].data[1].expires_at < req[r].at
           THEN req[r].result = NullStr /\ req[r].data[1] \in oauth_tokens
           ELSE req[r].result = req[r].data[1].access_token


\* C15: for a key holding three rows, a first fetch (its deletes succeeding)
\* has issued two deletes, left one row for the key and returned the token
\* of the newest row; a second fetch that follows it with no request in
\* between has read that row alone, issued no delete and returned the same
\* token (the row not having expired meanwhile).
C15_IdempotentAfterReconciliation ==
    \A r, q \in DOMAIN req :
        (/\ FetchedRows(r) /\ Len(req[r].data) = 3 /\ req[r].failed = 0
         /\ req[r].after = {}
         /\ IsFetch(q) /\ req[q].pc = "done" /\ ~req[q].queryFails
         /\ req[q].after = {r} /\ Latest(q)
         /\ (req[r].data[1].expires_at = NullTime
               \/ req[r].data[1].expires_at >= req[q].at))
        => /\ req[r].deletes = 2
           /\ \A i \in 1..3 : req[r].data[1].updated_at >= req[r].data[i].updated_at
           /\ req[r].result = req[r].data[1].access_token
           /\ KeyRows(req[r].userId, req[r].platform) = {req[r].data[1]}
           /\ req[q].data = <<req[r].data[1]>>
           /\ req[q].deletes = 0
           /\ req[q].result = req[r].result


\* C18: a fetch whose select failed in transport has ended in an outcome
\* other than the one returned for an absent or expired token (null).
C18_StoreUnavailableDistinct ==
    \A r \in DOMAIN req :
        (IsFetch(r) /\ req[r].pc = "done" /\ req[r].queryFails)
        => req[r].result # NullStr


\* C19: a fetch that read duplicates has, whichever of its deletes failed,
\* issued one delete for every row after the first and returned the outcome
\* of the newest row (data[0]): null if that row has expired, its access
\* token otherwise; rows whose delete failed are still in the store.
C19_DeleteFailuresIgnored ==
    \A r \in DOMAIN req :
        (FetchedRows(r) /\ Len(req[r].data) > 1)
        => /\ req[r].deletes = Len(req[r].data) - 1
           /\ req[r].failed <= req[r].deletes
           /\ \A i \in 1..Len(req[r].data) :
                 req[r].data[1].updated_at >= req[r].data[i].updated_at
           /\ req[r].result =
                IF req[r].data[1].expires_at # NullTime
                     /\ req[r].data[1].expires_at < req[r].at
                THEN NullStr
                ELSE req[r].data[1].access_token
           /\ (Latest(r) /\ req[r].failed = req[r].deletes)
                => \A i \in 1..Len(req[r].data) : req[r].data[i] \in oauth_tokens

C19_Witness ==
    \E r \in DOMAIN req :
        /\ FetchedRows(r) /\ Len(req[r].data) = 3
        /\ req[r].deletes = 2 /\ req[r].failed = 1
        /\ req[r].data[1].updated_at > req[r].data[2].updated_at
        /\ req[r].data[2].updated_at > req[r].data[3].updated_at
        /\ req[r].data[2] \in oauth_tokens /\ req[r].data[3] \notin oauth_tokens
        /\ req[r].data[1].expires_at = 0 /\ req[r].at = 500
        /\ req[r].result = NullStr


\* The callback of slot r has stored its token and ended in the success
\* redirect.
Stored(r) == IsCallback(r) /\ req[r].pc = "done" /\ req[r].writes = 1

\* C16: when two callbacks for the key have stored their tokens one after
\* the other and a fetch has then run with no other successful callback
\* after the second, the fetch has read exactly one row, carrying the
\* access token and the updated_at of the second callback's upsert.
C16_LaterUpsertWins ==
    \A a, b, f \in DOMAIN req :
        (/\ Stored(a) /\ Stored(b) /\ a \in req[b].after
         /\ IsFetch(f) /\ req[f].pc = "done" /\ ~req[f].queryFails
         /\ b \in req[f].after
         /\ \A q \in req[f].after : Stored(q) => (q = b \/ q \in req[b].after))
        => /\ Len(req[f].data) = 1
           /\ req[f].deletes = 0
           /\ req[f].data[1].access_token = req[b].tokenData.access_token
           /\ req[f].data[1].updated_at = req[b].payload.updated_at
           /\ req[f].data[1].updated_at >= req[a].payload.updated_at

C16_Witness ==
    /\ Stored(1) /\ Stored(2) /\ req[2].after = {1}
    /\ req[1].payload.updated_at = 0 /\ req[2].payload.updated_at = 500
    /\ IsFetch(3) /\ req[3].pc = "done" /\ req[3].after = {1, 2}
    /\ Len(req[3].data) = 1
    /\ req[3].data[1].access_token = AccessTokenOf(2)
    /\ req[3].data[1].updated_at = 500
    /\ req[3].result = AccessTokenOf(2)


\* C17: two callbacks for the key were in flight together (neither arrived
\* after the other had ended) and both have ended, one of them at least
\* having stored its token, and no other callback has stored one; once a
\* fetch that arrived after both has ended, the store holds exactly one row
\* for the key, its access token is the token a callback of the two has
\* stored, and the fetch has returned that token.
C17_ConcurrentCallbacksConverge ==
    \A a, b, f \in DOMAIN req :
        (/\ a # b /\ IsCallback(a) /\ IsCallback(b)
         /\ req[a].pc = "done" /\ req[b].pc = "done"
         /\ Stored(a) \/ Stored(b)
         /\ a \notin req[b].after /\ b \notin req[a].after
         /\ \A q \in DOMAIN req : Stored(q) => q \in {a, b}
         /\ IsFetch(f) /\ req[f].pc = "done" /\ ~req[f].queryFails
         /\ {a, b} \subseteq req[f].after)
        => /\ Cardinality(KeyRows("u1", "spotify")) = 1
           /\ \A row \in KeyRows("u1", "spotify") :
                 /\ row.access_token
                      \in {req[q].tokenData.access_token : q \in {c \in {a, b} : Stored(c)}}
                 /\ req[f].data = <<row>>
                 /\ req[f].result = row.access_token

C17_Witness ==
    \E a, b, f \in DOMAIN req :
        /\ a # b /\ Stored(a) /\ Stored(b)
        /\ req[a].after = {} /\ req[b].after = {}
        /\ IsFetch(f) /\ req[f].pc = "done" /\ req[f].after = {a, b}
        /\ Len(req[f].data) = 1
        /\ KeyRows("u1", "spotify") = {req[f].data[1]}
        /\ req[f].result = AccessTokenOf(a)
        /\ a < b


\* The value a column holds when the payload's value replaces it: null for
\* a value the provider left out.
Replaced(v) == IF v = Undefined THEN NullStr ELSE v

\* C20: after a callback has stored its token for a key that held a row,
\* the key holds one row whose access_token, refresh_token, token_type,
\* scope, expires_at and token_data are those derived from the provider's
\* response (null where the response has no value) and none is a value of
\* the row the key held before.
C20_UpsertReplacesEveryField ==
    \A r \in DOMAIN req :
        (/\ IsCallback(r) /\ req[r].pc = "done" /\ req[r].writes = 1
         /\ \E old \in InitialTokens :
               old.user_id = req[r].userId /\ old.platform_id = req[r].platform)
        => /\ Cardinality(KeyRows(req[r].userId, req[r].platform)) = 1
           /\ \A row \in KeyRows(req[r].userId, req[r].platform) :
                 /\ row.access_token = Replaced(req[r].tokenData.access_token)
                 /\ row.refresh_token = Replaced(req[r].tokenData.refresh_token)
                 /\ row.token_type =
                      (IF req[r].tokenData.token_type = Undefined
                       THEN "Bearer" ELSE req[r].tokenData.token_type)
                 /\ row.scope = Replaced(req[r].tokenData.scope)
                 /\ row.expires_at =
                      (IF req[r].tokenData.expires_in \in {NullTime, 0}
                       THEN NullTime
                       ELSE req[r].payload.updated_at + req[r].tokenData.expires_in * 1000)
                 /\ row.token_data = req[r].tokenData
                 /\ row.refresh_token # "rt_old"
                 /\ row.scope # "scope_old"
                 /\ row.access_token # "at_old"


\* The invocation's exchange call failed: it has ended after its exchange
\* call without issuing an upsert.
ExchangeFailed(r) ==
    IsCallback(r) /\ req[r].pc = "done" /\ req[r].exchanges > 0 /\ req[r].upserts = 0

\* C21: a callback invocation attempts the code exchange at most once; when
\* the exchange fails the invocation makes no second attempt, writes nothing
\* to the token store and ends in an error redirect.
C21_ExchangeAtMostOnce ==
    \A r \in DOMAIN req :
        IsCallback(r) =>
            /\ req[r].exchanges <= 1
            /\ ExchangeFailed(r) =>
                   /\ req[r].exchanges = 1
                   /\ req[r].writes = 0
                   /\ oauth_tokens = InitialTokens
                   /\ ErrorRedirected(r)

C21_Witness ==
    \E r \in DOMAIN req :
        /\ ExchangeFailed(r)
        /\ req[r].response.error.text = "Request failed with status code"


\* The invocation's upsert reported an error: it has ended after issuing its
\* upsert without a row written.
UpsertFailed(r) ==
    IsCallback(r) /\ req[r].pc = "done" /\ req[r].upserts > 0 /\ req[r].writes = 0

\* The invocation has emitted the success redirect.
SuccessRedirected(r) ==
    req[r].response.kind = "redirect" /\ req[r].response.success

\* C22: a callback whose upsert reports a failure ends in an error redirect,
\* never in the success redirect; the success redirect comes only after an
\* upsert that reported no error, whose row is in the table.
C22_StoreFailureIsError ==
    \A r \in DOMAIN req :
        IsCallback(r) =>
            /\ UpsertFailed(r) => ErrorRedirected(r) /\ oauth_tokens = InitialTokens
            /\ SuccessRedirected(r) =>
                   /\ req[r].pc = "done" /\ req[r].redirects = 1
                   /\ req[r].upserts = 1 /\ req[r].writes = 1
                   /\ \E t \in oauth_tokens :
                          /\ t.platform_id = req[r].platform
                          /\ t.access_token = req[r].tokenData.access_token

C22_Witness ==
    \E r \in DOMAIN req :
        /\ UpsertFailed(r)
        /\ req[r].response.error.text = "store_error"


\* The strategy the spec table gives a platform id.
TableStrategy(p) ==
    CASE p = "spotify" -> "exchangeSpotifyCode"
      [] p = "youtube" -> "exchangeGoogleCode"
      [] p = "google_analytics" -> "exchangeGoogleCode"
      [] p = "facebook" -> "exchangeFacebookCode"
      [] p = "instagram" -> "exchangeFacebookCode"
      [] p = "twitter" -> "exchangeTwitterCode"
      [] p = "tiktok" -> "exchangeTikTokCode"
      [] OTHER -> "unsupported"

\* C23: the exchange is dispatched on the platform id alone, by the spec
\* table; for any other platform id, enabled config row or not, no exchange
\* call and no token write happen and the invocation ends in an error
\* redirect.
C23_DispatchByPlatform ==
    \A r \in DOMAIN req :
        IsCallback(r) =>
            /\ req[r].exchanges > 0 => req[r].strategy = TableStrategy(req[r].platform)
            /\ TableStrategy(req[r].platform) = "unsupported" =>
                   /\ NoSideEffects(r)
                   /\ oauth_tokens = InitialTokens
                   /\ req[r].pc = "done" => ErrorRedirected(r)


\* The request carries key = value among its parameters.
Sends(rq, key, value) == <<key, value>> \in rq.params

\* The keys of the request's parameters.
ParamKeys(rq) == {kv[1] : kv \in rq.params}

\* C24: every exchange request has the transport, the credential
\* presentation and the grant parameters of the spec table: spotify and
\* twitter a form-encoded POST with the client credentials in a Basic
\* authorization header, youtube / google_analytics and tiktok a JSON POST
\* with the credentials in the body (client_key for tiktok), facebook /
\* instagram a GET with the credentials as query parameters.
C24_RequestShapes ==
    \A r \in DOMAIN req :
        (IsCallback(r) /\ req[r].exchanges > 0) =>
            LET rq == req[r].request
                cfg == req[r].platformConfig
                p == req[r].platform
                grant == /\ Sends(rq, "code", req[r].code)
                         /\ Sends(rq, "redirect_uri", cfg.redirect_uri)
                typed == Sends(rq, "grant_type", "authorization_code")
            IN  /\ p \in {"spotify", "twitter"} =>
                       /\ rq.method = "POST" /\ rq.encoding = "form"
                       /\ rq.authorization =
                              [scheme |-> "Basic", id |-> cfg.client_id,
                               secret |-> cfg.client_secret]
                       /\ grant /\ typed
                /\ p = "twitter" => "code_verifier" \in ParamKeys(rq)
                /\ p \in {"youtube", "google_analytics"} =>
                       /\ rq.method = "POST" /\ rq.encoding = "json"
                       /\ rq.authorization.scheme = "none"
                       /\ Sends(rq, "client_id", cfg.client_id)
                       /\ Sends(rq, "client_secret", cfg.client_secret)
                       /\ grant /\ typed
                /\ p = "tiktok" =>
                       /\ rq.method = "POST" /\ rq.encoding = "json"
                       /\ rq.authorization.scheme = "none"
                       /\ Sends(rq, "client_key", cfg.client_id)
                       /\ Sends(rq, "client_secret", cfg.client_secret)
                       /\ grant /\ typed
                /\ p \in {"facebook", "instagram"} =>
                       /\ rq.method = "GET" /\ rq.encoding = "query"
                       /\ rq.authorization.scheme = "none"
                       /\ Sends(rq, "client_id", cfg.client_id)
                       /\ Sends(rq, "client_secret", cfg.client_secret)
                       /\ grant


\* C25: for every user id and every supported platform, the callback's
\* decoder applied to encode(userId, platformId) does not throw and yields
\* exactly that user id and that platform.
C25_StateRoundTrip ==
    codec.pc = "decoded" =>
        /\ ~codec.decoded.threw
        /\ codec.decoded.userId = Chars(codec.userId)
        /\ codec.decoded.statePlatform = Chars(codec.platformId)

\* A state that needed an escape and the URL-safe sextet 62 (the '-') has
\* been decoded.
C25_Witness ==
    /\ codec.pc = "decoded"
    /\ codec.userId = "~~>"
    /\ \E i \in 1..Len(codec.state) : codec.state[i] = 45
    /\ codec.decoded.userId = <<126, 126, 62>>


\* C26: a token stored from a provider response that carries expires_in
\* (0 included) has expires_at = the callback's time + expires_in seconds,
\* and one stored from a response without expires_in has no expires_at.
C26_ExpiresAtFromExpiresIn ==
    \A r \in DOMAIN req :
        Stored(r) =>
            \A t \in oauth_tokens :
                (t.platform_id = req[r].platform
                     /\ t.access_token = req[r].tokenData.access_token) =>
                    t.expires_at =
                        IF req[r].tokenData.expires_in = NullTime
                        THEN NullTime
                        ELSE t.updated_at + req[r].tokenData.expires_in * 1000


\* C27: whatever the interleaving of token fetches and callback upserts on
\* a key, the dedup pass leaves the row of the most recently written token:
\* a key of which a fetch read at least one row still has a row, and once a
\* callback has stored a token the key has a row holding a token stored by a
\* completed callback.
C27_DedupNeverEmptiesKey ==
    /\ \A f \in DOMAIN req :
           (IsFetch(f) /\ Len(req[f].data) >= 1) =>
               KeyRows(req[f].userId, req[f].platform) # {}
    /\ \A c \in DOMAIN req :
           Stored(c) =>
               \E t \in KeyRows(req[c].userId, req[c].platform) :
                   \E q \in DOMAIN req :
                       Stored(q) /\ t.access_token = req[q].tokenData.access_token


\* The request of slot r was handed an access token to send to a provider.
GotToken(r) == IsFetch(r) /\ req[r].result \notin {Undefined, NullStr}

\* C28: an access token of user U is read and handed on, and rows of user U
\* are deleted by the dedup, only in a request whose verified identity is U.
C28_TokenOnlyForVerifiedUser ==
    \A r \in DOMAIN req :
        (GotToken(r) \/ (IsFetch(r) /\ req[r].deletes > 0)) =>
            req[r].caller = req[r].userId


\* The AI request of slot r was answered 200 and none of its store calls
\* failed.
Succeeded(r) ==
    /\ aiReq[r].pc = "done" /\ aiReq[r].status = 200
    /\ ~aiReq[r].queryFailed /\ aiReq[r].written

\* The AI request of slot r ran alone and succeeded.
AloneSucceeded(r, kind) ==
    /\ aiReq[r].kind = kind /\ Succeeded(r)
    /\ \A q \in DOMAIN aiReq : q # r => aiReq[q].pc = "idle"

\* C29: for every stored balance, 0 included, a successful POST
\* /api/ai/insights does not increase remaining_credits: it leaves it at
\* max(0, previous - 1) and raises used_credits by exactly 1.
C29_InsightsNeverAddsCredits ==
    \A r \in DOMAIN aiReq :
        (AloneSucceeded(r, "insights") /\ usageAtStart # NoRow) =>
            /\ user_ai_usage.remaining_credits <= usageAtStart.remaining_credits
            /\ user_ai_usage.remaining_credits =
                   (IF usageAtStart.remaining_credits >= 1
                    THEN usageAtStart.remaining_credits - 1 ELSE 0)
            /\ user_ai_usage.used_credits = usageAtStart.used_credits + 1

\* Every AI request has succeeded, none is left to start.
AllSucceeded == \A r \in DOMAIN aiReq : Succeeded(r)

Insights == {r \in DOMAIN aiReq : aiReq[r].kind = "insights"}

RECURSIVE Purchased(_)
Purchased(r) == IF r = 0 THEN 0 ELSE aiReq[r].credits + Purchased(r - 1)

\* C30: when concurrent insights and purchase requests of a user have all
\* succeeded, no update is lost: remaining_credits is the initial balance
\* plus the purchased credits minus one per insights request, used_credits
\* the initial value plus the number of insights requests.  (Stated for
\* initial balances that cover the insights requests, so that the floor at
\* 0 plays no part.)
C30_NoLostUpdate ==
    (/\ AllSucceeded
     /\ usageAtStart # NoRow
     /\ usageAtStart.remaining_credits >= Cardinality(Insights)) =>
        /\ user_ai_usage.remaining_credits =
               usageAtStart.remaining_credits + Purchased(MaxAiReqs)
                   - Cardinality(Insights)
        /\ user_ai_usage.used_credits = usageAtStart.used_credits + Cardinality(Insights)

====
